---------------------------- MODULE Spec2Model ----------------------------
(***************************************************************************)
(* A model of vrctl, the Leviton VRC0P serial utility (src/vrctl.c,        *)
(* src/util.c): the text command/response engine (sync_interface,          *)
(* wait_resp, send_then_recv, parse_resp), the Zensys firmware upgrade     *)
(* (upgrade_zensys) and the ST flash upgrade (upgrade_st).                 *)
(*                                                                         *)
(* Characters are ASCII codes, strings are sequences of codes.  A C buffer *)
(* is a function from offsets 0..BUFLEN-1 to codes.  The device is the     *)
(* environment: what it answers is chosen with \E from small sets.         *)
(***************************************************************************)
EXTENDS Integers, Sequences, FiniteSets, TLC

(***************************************************************************)
(* Bounds of the model.                                                    *)
(***************************************************************************)
\* the firmware file holds at most this many lines
MaxFileLines == 3
\* st_xor is applied to frames of at most this many bytes
MaxXorLen == 3
\* the number of processes that call lock_tty for the same device
NumProcs == 2
\* write_line is given texts of at most this many characters
MaxTextLen == 2
\* read_line is called with a maxlen of at most this
MaxLineBuf == 3
\* the device sends at most this many bytes during one read_line
MaxArrivals == 4
\* read_line's timeout_us, in ticks of the model's clock
ReadTicks == 2
\* the precision of a temperature is at most this
MaxPrecision == 3

(***************************************************************************)
(* Program constants.                                                      *)
(***************************************************************************)
BUFLEN == 64
\* read timeouts, in microseconds
TIMEOUT == 3000000
TIMEOUT_UPGRADE == 4000000
\* sizeof(binbuf) in upgrade_st
BINBUF_SIZE == 18
\* number of probes of sync_interface:  for (i = 0; i < 3; i++)
SYNC_PROBES == 3
\* variants: recovery one attempt early, and one attempt more before die
ST_RECOVERY_ATTEMPT_early == 2 - 1
ST_LAST_ATTEMPT_late == 4 + 1
\* upgrade_st:  if (i == 2) software recovery;  if (i == 4) die
ST_RECOVERY_ATTEMPT == 2
ST_LAST_ATTEMPT == 4
\* upgrade_st:  if (len < 13 || len > 43)
ST_MIN_LINE == 13
ST_MAX_LINE == 43

(***************************************************************************)
(* ASCII.                                                                  *)
(***************************************************************************)
DigitChars == <<"0", "1", "2", "3", "4", "5", "6", "7", "8", "9">>
UpperChars == <<"A", "B", "C", "D", "E", "F", "G", "H", "I", "J", "K", "L", "M",
                "N", "O", "P", "Q", "R", "S", "T", "U", "V", "W", "X", "Y", "Z">>

\* the ASCII code of a one-character string
Ord(c) ==
    IF \E k \in 1..10 : DigitChars[k] = c
    THEN 47 + (CHOOSE k \in 1..10 : DigitChars[k] = c)
    ELSE IF \E k \in 1..26 : UpperChars[k] = c
    THEN 64 + (CHOOSE k \in 1..26 : UpperChars[k] = c)
    ELSE CASE c = "," -> 44
           [] c = ":" -> 58
           [] c = "<" -> 60
           [] c = ">" -> 62
           [] c = "?" -> 63
           [] c = "x" -> 120

\* a C string literal, written as a tuple of one-character strings
Str(s) == [k \in 1..Len(s) |-> Ord(s[k])]

NUL == 0
LF == 10
CR == 13

(***************************************************************************)
(* Bit operations on bytes, as C computes them.                            *)
(***************************************************************************)
RECURSIVE BitXor(_, _)
BitXor(a, b) ==
    IF a = 0 THEN b
    ELSE IF b = 0 THEN a
    ELSE ((a + b) % 2) + 2 * BitXor(a \div 2, b \div 2)

RECURSIVE BitOr(_, _)
BitOr(a, b) ==
    IF a = 0 THEN b
    ELSE IF b = 0 THEN a
    ELSE (IF a % 2 = 1 \/ b % 2 = 1 THEN 1 ELSE 0) + 2 * BitOr(a \div 2, b \div 2)

RECURSIVE BitAnd(_, _)
BitAnd(a, b) ==
    IF a = 0 \/ b = 0 THEN 0
    ELSE (IF a % 2 = 1 /\ b % 2 = 1 THEN 1 ELSE 0) + 2 * BitAnd(a \div 2, b \div 2)

\* a value stored into an unsigned char
U8(v) == v % 256

(***************************************************************************)
(* C strings in a buffer.                                                  *)
(***************************************************************************)
\* the buffer after a string s is stored at offset 0 with its NUL: the bytes
\* beyond the NUL are those of the buffer's former content, old
StoreStr(s, old) ==
    [k \in 0..(BUFLEN - 1) |->
        IF k < Len(s) THEN s[k + 1]
        ELSE IF k = Len(s) THEN NUL
        ELSE old[k]]

ZeroBuf == [k \in 0..(BUFLEN - 1) |-> NUL]

\* strlen(&mem[off])
RECURSIVE strlen(_, _)
strlen(mem, off) ==
    IF off >= BUFLEN \/ mem[off] = NUL THEN 0 ELSE 1 + strlen(mem, off + 1)

\* the C string at &mem[off], as a sequence
CStr(mem, off) == [k \in 1..strlen(mem, off) |-> mem[off + k - 1]]

\* strncmp(&mem[off], lit, n) == 0, for a literal of at least n characters
strncmp_eq(mem, off, lit, n) ==
    \A k \in 1..n : mem[off + k - 1] = lit[k]

\* strcmp(&mem[0], lit) == 0
strcmp_eq(mem, lit) == CStr(mem, 0) = lit


(***************************************************************************)
(* Response parser (src/vrctl.c, parse_uint, parse_temp, parse_resp).      *)
(* A parser's result says whether it called die(); r is struct resp, each  *)
(* field keeping its former value where the code does not assign it.       *)
(***************************************************************************)
IsDigit(c) == c >= 48 /\ c <= 57

RECURSIVE parse_uint_loop(_, _, _, _, _)
parse_uint_loop(mem, off, maxlen, k, acc) ==
    IF ~(maxlen = 0 \/ k < maxlen) THEN [die |-> FALSE, v |-> acc]
    ELSE IF mem[off + k] = NUL THEN [die |-> FALSE, v |-> acc]
    ELSE IF ~IsDigit(mem[off + k]) THEN [die |-> TRUE, v |-> acc]
    ELSE parse_uint_loop(mem, off, maxlen, k + 1, acc * 10 + mem[off + k] - 48)

\* variant: the last of the maxlen digits is not read
parse_uint_short(mem, off, maxlen, maxval) ==
    parse_uint_loop(mem, off, maxlen - 1, 0, 0)

parse_uint(mem, off, maxlen, maxval) ==
    LET res == parse_uint_loop(mem, off, maxlen, 0, 0)
    IN  IF res.die THEN res
        ELSE IF res.v < 0 \/ (maxval # 0 /\ res.v > maxval)
        THEN [die |-> TRUE, v |-> res.v]
        ELSE res

\* variant: three characters for each value, the commas forgotten
TempMinLen_short(bytes) == 3 + bytes * 3

\* parse_temp:  strlen(buf) < 3 + bytes*4
TempMinLen(bytes) == 3 + bytes * 4

parse_temp(mem, off, r) ==
    LET fmt   == parse_uint(mem, off, 3, 0)
        bytes == BitAnd(fmt.v, 7)
        r1    == [r EXCEPT !.type1 = IF BitAnd(fmt.v, 24) # 0 THEN Ord("F") ELSE Ord("C"),
                           !.arg1_precision = BitAnd(fmt.v \div 32, 7)]
        t1    == parse_uint(mem, off + 4, 3, 0)
        t2    == parse_uint(mem, off + 8, 3, 0)
    IN  IF fmt.die THEN [die |-> TRUE, r |-> r]
        ELSE IF bytes = 0 \/ bytes > 2 \/ strlen(mem, off) < TempMinLen(bytes)
        THEN [die |-> TRUE, r |-> r1]
        ELSE IF bytes = 1
        THEN [die |-> t1.die, r |-> [r1 EXCEPT !.arg1 = t1.v]]
        ELSE [die |-> t1.die \/ t2.die,
              r |-> [r1 EXCEPT !.arg1 = BitOr(t1.v * 256, t2.v)]]

TempPrefix1 == Str(<<":", "0", "4", "9", ",", "0", "0", "5", ",", "0", "0", "1", ",">>)
TempPrefix2 == Str(<<":", "0", "6", "7", ",", "0", "0", "3", ",", "0", "0", "2", ",">>)
ModePrefix == Str(<<":", "0", "6", "4", ",", "0", "0", "3", ",">>)

\* variant: only the lower end of the range is tested
NotUpper_low(c) == c < Ord("A")

\* parse_resp:  buf[1] < 'A' || buf[1] > 'Z'
NotUpper(c) == c < Ord("A") \/ c > Ord("Z")

\* [ret |-> 0 or -1, die |-> whether die() was called, r |-> the struct after]
parse_resp(mem, r) ==
    IF mem[0] # Ord("<") THEN [ret |-> -1, die |-> FALSE, r |-> r]
    ELSE IF NotUpper(mem[1]) THEN [ret |-> -1, die |-> FALSE, r |-> r]
    ELSE
      LET a0 == parse_uint(mem, 2, 3, 0)
          r0 == [r EXCEPT !.type0 = mem[1], !.arg0 = a0.v]
      IN  IF a0.die THEN [ret |-> 0, die |-> TRUE, r |-> r]
          ELSE IF mem[5] = NUL
          THEN [ret |-> 0, die |-> FALSE, r |-> [r0 EXCEPT !.type1 = 0]]
          ELSE IF strncmp_eq(mem, 5, TempPrefix1, 13) \/ strncmp_eq(mem, 5, TempPrefix2, 13)
          THEN LET t == parse_temp(mem, 18, r0)
               IN  [ret |-> 0, die |-> t.die, r |-> t.r]
          ELSE IF strncmp_eq(mem, 5, ModePrefix, 9)
          THEN LET m == parse_uint(mem, 14, 3, 0)
               IN  [ret |-> 0, die |-> m.die, r |-> [r0 EXCEPT !.arg1 = m.v]]
          ELSE LET a1 == parse_uint(mem, 6, 3, 0)
               IN  [ret |-> 0, die |-> a1.die,
                    r |-> [r0 EXCEPT !.type1 = mem[5], !.arg1 = a1.v]]


(***************************************************************************)
(* The program's state.                                                    *)
(***************************************************************************)
VARIABLES
    pc,        \* where the process is
    mode,      \* main's arguments: "cmd" (a command list) or "upgrade" (--upgrade)
    cmd,       \* the command of the command list: "on", "off", "toggle"
               \* or "level"
    file,      \* the firmware file: its lines, each with its terminator
    fpos,      \* the number of lines of the file already read (FILE *f)
    framing,   \* the termios settings of the device: [baud, parenb]
    trace,     \* what the process did to the device so far, in order
    i,         \* the loop counter of sync_interface / upgrade_st
    ret,       \* the result (warning flag) of the running upgrade
    lastRead,  \* the outcome of the latest read_line
    expected,  \* wait_resp's expected_type
    cont,      \* where send_then_recv returns to
    r,         \* struct resp r of send_then_recv
    retval,    \* the value the latest send_then_recv returned (-1: none yet)
    reply,     \* the bytes st_getbytes read last
    j,         \* the index of the next erase command / handshake line
    maxidx,    \* the highest index of binbuf written for the latest frame
    lockfile,  \* whose lock file /var/lock/LCK..<dev> is: "absent", "self",
               \* "other" (a live process) or "stale" (a dead process)
    g_locked_tty,  \* util.c's g_locked_tty is set (not NULL)
    call,      \* a function applied on its own, with its arguments
    result,    \* what that function returned or stored
    locker,    \* the processes that call lock_tty for the same device, each
               \* with its position, the pid it read and what it was returned
    hret,      \* what the command's handler returned: <<>> before it returns
    inflight   \* the lines the device has sent or will send that no
               \* read_line has taken yet, oldest first

vars == <<pc, mode, cmd, file, fpos, framing, trace, i, ret, lastRead,
          expected, cont, r, retval, reply, j, maxidx,
          lockfile, g_locked_tty, call, result, locker, hret, inflight>>

Normal == [baud |-> 9600, parenb |-> FALSE]
Bootloader == [baud |-> 57600, parenb |-> TRUE]

\* baud rates set_tty_defaults knows
SupportedBauds == {115200, 57600, 38400, 19200, 9600}

\* set_tty_defaults(fd, baud): the settings after, and the value returned
set_tty_defaults(old, baud) ==
    IF baud \in SupportedBauds
    THEN [f |-> [baud |-> baud, parenb |-> FALSE], ret |-> 0]
    ELSE [f |-> old, ret |-> -1]

\* variant: 57600bps without parity
st_termsetup_noparity(old) == [baud |-> 57600, parenb |-> FALSE]

\* st_termsetup(fd): 57600bps 8E1
st_termsetup(old) == [baud |-> 57600, parenb |-> TRUE]

(***************************************************************************)
(* Events of the trace.                                                    *)
(***************************************************************************)
Ev(op, f, b, n) == [op |-> op, f |-> f, b |-> b, n |-> n]
EvWrite(f, b)   == Ev("write", f, b, Len(b))
\* the read of the n reply bytes of a bootloader command (st_cmd)
EvRead(f, n)    == Ev("read", f, <<>>, n)
EvTermios(f)    == Ev("termios", f, <<>>, f.baud)
EvSleep(f, us)  == Ev("usleep", f, <<>>, us)
EvFlush(f)      == Ev("flush", f, <<>>, 0)
\* a read_resp call of upgrade_zensys's handshake or programming loop, with
\* its timeout_us (the reads of wait_resp, sync_interface and the verify
\* phase, whose number has no bound, are kept in lastRead only)
EvLine(f, us)   == Ev("readline", f, <<>>, us)

\* write_line(fd, buf): the bytes write_loop is given, in order
write_line(text) == text \o <<CR, NUL>>

\* the process called die(): exit(1)
Die == pc' = "dead"

\* unlock_tty(name): unlink(lockname)
unlock_tty(lf) == "absent"

\* die():  if (g_locked_tty) unlock_tty(g_locked_tty);  part of every step
\* that ends in die(), and of no other
die_unlock ==
    lockfile' = IF pc' = "dead" /\ g_locked_tty THEN unlock_tty(lockfile) ELSE lockfile

NoCall == [fn |-> "none"]

(***************************************************************************)
(* What the device may answer to a read_line.                              *)
(***************************************************************************)
AckLine      == Str(<<"<", "E", "0", "0", "0">>)
ReadyLine    == Str(<<"<", "B", "0", "0", "0">>)
PreambleLine == Str(<<":", "7", "F", "7", "F", "7", "F", "7", "F", "1", "F", "0", "0">>)

RespLines ==
    { AckLine,
      Str(<<"<", "E", "0", "0", "5">>),
      Str(<<"<", "E", "0", "0", "0", "X">>),
      Str(<<"<", "X", "0", "0", "0">>),
      Str(<<"<", "X", "0", "0", "3">>),
      Str(<<"<", "X", "1">>),
      Str(<<"<", "x", "0", "0", "0">>),
      Str(<<"<", "N", "0", "0", "3", "L", "0", "0", "0">>),
      ReadyLine,
      PreambleLine,
      Str(<<"?", "x">>) }

\* former contents of a line buffer on the stack: never written, or a line
\* read_line stored there before
StaleBufs == {ZeroBuf} \cup { StoreStr(l, ZeroBuf) : l \in RespLines }

NoRead == [st |-> "none", s |-> <<>>]
\* read_line's outcomes: a line (its length returned), -ETIMEDOUT, -ENOSPC,
\* or read_byte's die() on EOF or a read error
ReadOutcomes ==
    { [st |-> "line", s |-> l] : l \in RespLines }
      \cup { [st |-> "timeout", s |-> <<>>], [st |-> "overflow", s |-> <<>>],
             [st |-> "ioerror", s |-> <<>>] }

\* struct resp r before anything is stored in it
NoResp == [type0 |-> 0, arg0 |-> 0, type1 |-> 0, arg1 |-> 0, arg1_precision |-> 0]

(***************************************************************************)
(* main, the command list (src/vrctl.c, main / run_command / handle_on).   *)
(***************************************************************************)
\* %03d: the three digits of n
Dec3(n) == <<48 + (n \div 100), 48 + ((n \div 10) % 10), 48 + (n % 10)>>

\* the first line a command's handler sends: ">N,ON" and ">N,OF" for every
\* node; for node 3 the status query ">?N%03d" of toggle and ">N%03dL%03d"
\* of level with the argument 255
CmdText(c) ==
    IF c = "on" THEN Str(<<">", "N", ",", "O", "N">>)
    ELSE IF c = "off" THEN Str(<<">", "N", ",", "O", "F">>)
    ELSE IF c = "toggle" THEN Str(<<">", "?", "N">>) \o Dec3(3)
    ELSE Str(<<">", "N">>) \o Dec3(3) \o Str(<<"L">>) \o Dec3(255)

\* ">N%03dON" and ">N%03dOF" for node 3
OnText == Str(<<">", "N">>) \o Dec3(3) \o Str(<<"O", "N">>)
OffText == Str(<<">", "N">>) \o Dec3(3) \o Str(<<"O", "F">>)

\* node reports the device may send while a command runs: the level of node
\* 3, the level of node 5, and the thermostat mode of node 3
NodeLines ==
    { Str(<<"<", "N">>) \o Dec3(3) \o Str(<<"L">>) \o Dec3(255),
      Str(<<"<", "N">>) \o Dec3(5) \o Str(<<"L">>) \o Dec3(255),
      Str(<<"<", "N">>) \o Dec3(3) \o ModePrefix \o Dec3(1) }

\* what a read_line of wait_resp may find
WaitOutcomes ==
    IF mode = "cmd"
    THEN ReadOutcomes \cup { [st |-> "line", s |-> l] : l \in NodeLines }
    ELSE ReadOutcomes

\* struct resp r of handle_status_quiet before the first wait_resp: never
\* assigned, so its fields hold whatever the stack held
UninitResp == {NoResp, [NoResp EXCEPT !.type1 = Ord("L")]}

UpdateText == Str(<<">", "U", "P">>)


\* write_lockfile(lockname, caller): open(O_CREAT | O_EXCL) creates the lock
\* file, or fails and leaves things as they are
write_lockfile(lf) ==
    IF lf = "absent"
    THEN {[ret |-> 0, lf |-> "self"], [ret |-> -1, lf |-> "absent"]}
    ELSE {[ret |-> -1, lf |-> lf]}

\* lock_tty(name, caller), /var/lock being accessible: what it returns and
\* the lock file it leaves.  No lock file: write_lockfile.  A lock file that
\* cannot be read, or whose pid is that of a live process: -1.  A stale
\* lock file: unlink, then write_lockfile.
lock_tty(lf) ==
    IF lf = "absent" THEN write_lockfile(lf)
    ELSE {[ret |-> -1, lf |-> lf]}
           \cup (IF lf = "stale" THEN write_lockfile(unlock_tty(lf)) ELSE {})

\* main, from lock_tty on: the lock, g_locked_tty = dev, the open of the
\* device, set_tty_defaults(devfd, 9600), then an upgrade or the command
\* list, which syncs before its first command
main ==
    /\ pc = "main"
    /\ \E o \in lock_tty(lockfile), opened \in BOOLEAN :
          IF o.ret < 0
          THEN /\ Die
               /\ lockfile' = o.lf
               /\ UNCHANGED g_locked_tty
          ELSE /\ g_locked_tty' = TRUE
               /\ IF opened
                  THEN /\ pc' = IF mode = "upgrade" THEN "handle_upgrade"
                                 ELSE "sync_interface"
                       /\ lockfile' = o.lf
                  ELSE /\ Die
                       /\ lockfile' = unlock_tty(o.lf)
    /\ UNCHANGED <<mode, cmd, file, fpos, framing, trace, i, ret, lastRead,
                   expected, cont, r, retval, reply, j, maxidx, call, result, locker, hret, inflight>>

(***************************************************************************)
(* sync_interface (src/vrctl.c).                                           *)
(***************************************************************************)
\* usleep(25000); flush_bytes(devfd); i = 0
sync_interface ==
    /\ pc = "sync_interface"
    /\ \E ok \in BOOLEAN :
        IF ok
        THEN /\ trace' = trace \o <<EvSleep(framing, 25000), EvFlush(framing)>>
             /\ i' = 0
             /\ pc' = "sync_write"
        ELSE /\ trace' = trace \o <<EvSleep(framing, 25000)>>
             /\ i' = i
             /\ Die
    /\ UNCHANGED <<mode, cmd, file, fpos, framing, ret, lastRead,
                   expected, cont, r, retval, reply, j, maxidx>>
    /\ die_unlock
    /\ UNCHANGED <<g_locked_tty, call, result, locker, hret, inflight>>

\* the probe of one attempt:  write_line(devfd, "")
sync_write ==
    /\ pc = "sync_write"
    /\ i < SYNC_PROBES
    /\ \E ok \in BOOLEAN :
        IF ok
        THEN /\ trace' = trace \o <<EvWrite(framing, write_line(<<>>))>>
             /\ pc' = "sync_read"
        ELSE /\ trace' = trace
             /\ Die
    /\ UNCHANGED <<mode, cmd, file, fpos, framing, i, ret, lastRead,
                   expected, cont, r, retval, reply, j, maxidx>>
    /\ die_unlock
    /\ UNCHANGED <<g_locked_tty, call, result, locker, hret, inflight>>

\* variant: strncmp(buf, "<E000", 5) in place of strcmp
sync_matches_prefix(rd) ==
    /\ rd.st = "line"
    /\ Len(rd.s) > 0
    /\ strncmp_eq(StoreStr(rd.s, ZeroBuf), 0, AckLine, 5)

\* ret > 0 && strcmp(buf, "<E000") == 0
sync_matches(rd) ==
    /\ rd.st = "line"
    /\ Len(rd.s) > 0
    /\ strcmp_eq(StoreStr(rd.s, ZeroBuf), AckLine)

\* where sync_interface returns to
sync_return == IF mode = "upgrade" THEN "zensys_entry" ELSE "run_command"

\* the read of one attempt, the test of the line, sleep(1), i++, and the
\* die() after the loop
sync_read ==
    /\ pc = "sync_read"
    /\ \E rd \in ReadOutcomes :
        /\ lastRead' = rd
        /\ IF rd.st = "ioerror"
           THEN /\ Die
                /\ UNCHANGED <<i, trace>>
           ELSE IF sync_matches(rd)
           THEN /\ pc' = sync_return
                /\ UNCHANGED <<i, trace>>
           ELSE /\ trace' = trace \o <<EvSleep(framing, 1000000)>>
                /\ i' = i + 1
                /\ pc' = IF i + 1 < SYNC_PROBES THEN "sync_write" ELSE "dead"
    /\ UNCHANGED <<mode, cmd, file, fpos, framing, ret,
                   expected, cont, r, retval, reply, j, maxidx>>
    /\ die_unlock
    /\ UNCHANGED <<g_locked_tty, call, result, locker, hret, inflight>>

(***************************************************************************)
(* send_then_recv and wait_resp (src/vrctl.c).                             *)
(***************************************************************************)
\* vsnprintf; write_line(devfd, buf); and the entry of wait_resp
send_then_recv(expected_type, text, next) ==
    /\ \E ok \in BOOLEAN :
        IF ok
        THEN /\ trace' = trace \o <<EvWrite(framing, write_line(text))>>
             /\ pc' = "wait_resp"
        ELSE /\ trace' = trace
             /\ Die
    /\ expected' = expected_type
    /\ cont' = next
    /\ r' = NoResp
    /\ UNCHANGED <<mode, cmd, file, fpos, framing, i, ret, lastRead,
                   retval, reply, j, maxidx>>

\* variant: the error report is fatal only while 'E' is awaited
IsFatalError_awaited(rr) ==
    rr.type0 = Ord("E") /\ rr.arg0 # 0 /\ expected = Ord("E")

\* wait_resp:  r->type0 == 'E' && r->arg0 != 0
IsFatalError(rr) == rr.type0 = Ord("E") /\ rr.arg0 # 0

\* one turn of wait_resp's loop: read_resp, parse_resp, the error check and
\* the loop test; on the matching line send_then_recv returns r.arg0
wait_resp ==
    /\ pc = "wait_resp"
    /\ \E rd \in WaitOutcomes, old \in StaleBufs :
        /\ lastRead' = rd
        /\ IF rd.st # "line"
           THEN /\ Die
                /\ UNCHANGED <<r, retval>>
           ELSE LET p == parse_resp(StoreStr(rd.s, old), r)
                IN  IF p.ret < 0 \/ p.die
                    THEN /\ Die
                         /\ UNCHANGED <<r, retval>>
                    ELSE IF IsFatalError(p.r)
                    THEN /\ Die
                         /\ r' = p.r
                         /\ UNCHANGED retval
                    ELSE IF p.r.type0 # expected
                    THEN /\ pc' = "wait_resp"
                         /\ r' = p.r
                         /\ UNCHANGED retval
                    ELSE /\ pc' = cont
                         /\ r' = p.r
                         /\ retval' = p.r.arg0
    /\ UNCHANGED <<mode, cmd, file, fpos, framing, trace, i, ret,
                   expected, cont, reply, j, maxidx>>
    /\ die_unlock
    /\ UNCHANGED <<g_locked_tty, call, result, locker, hret, inflight>>

\* run_command -> the handler's first send_then_recv: handle_on and
\* handle_off with NODEID_ALL, handle_level, and for handle_toggle the query
\* of handle_status_quiet
run_command ==
    /\ pc = "run_command"
    /\ send_then_recv(Ord("X"), CmdText(cmd),
                      IF cmd = "toggle" THEN "handle_status_quiet"
                      ELSE "handler_return")
    /\ die_unlock
    /\ UNCHANGED <<g_locked_tty, call, result, locker, hret, inflight>>

\* handle_status_quiet after its query returned ret: if (ret != 0) return
\* -ret, which handle_toggle returns as it is negative; else the first
\* wait_resp(devfd, 'N', &r) with its own r
handle_status_quiet ==
    /\ pc = "handle_status_quiet"
    /\ IF retval # 0
       THEN /\ hret' = <<-retval>>
            /\ pc' = "update_nodes"
            /\ UNCHANGED <<r, expected, cont>>
       ELSE /\ r' \in UninitResp
            /\ expected' = Ord("N")
            /\ cont' = "handle_toggle"
            /\ pc' = "wait_resp"
            /\ hret' = hret
    /\ UNCHANGED <<mode, cmd, file, fpos, framing, trace, i, ret, lastRead,
                   retval, reply, j, maxidx>>
    /\ die_unlock
    /\ UNCHANGED <<g_locked_tty, call, result, locker, inflight>>

\* while (r.arg0 != nodeid || r.type1 != 'L')
status_again(rr) == rr.arg0 # 3 \/ rr.type1 # Ord("L")

\* variant: handle_on whatever the level
toggle_text_on(level) == OnText

\* handle_toggle: if (ret == 0) return handle_on(...); else return
\* handle_off(...), each with its ">N%03dON" or ">N%03dOF"
toggle_text(level) == IF level = 0 THEN OnText ELSE OffText

\* the loop test of handle_status_quiet after a wait_resp; return r.arg1;
\* and handle_toggle on the value returned: handle_on if it is 0, else
\* handle_off (it is not negative here)
handle_toggle ==
    /\ pc = "handle_toggle"
    /\ IF status_again(r)
       THEN /\ pc' = "wait_resp"
            /\ UNCHANGED <<mode, cmd, file, fpos, framing, trace, i, ret,
                           lastRead, expected, cont, r, retval, reply, j, maxidx>>
       ELSE send_then_recv(Ord("X"), toggle_text(r.arg1), "handler_return")
    /\ die_unlock
    /\ UNCHANGED <<g_locked_tty, call, result, locker, hret, inflight>>

\* the handler's return statement: return -ret in handle_on and handle_off
\* (and so in handle_toggle), return ret in handle_level
handler_value(c, v) == IF c = "level" THEN v ELSE -v

\* the handler returns to run_command, and main goes on to update_nodes
handler_return ==
    /\ pc = "handler_return"
    /\ hret' = <<handler_value(cmd, retval)>>
    /\ pc' = "update_nodes"
    /\ UNCHANGED <<mode, cmd, file, fpos, framing, trace, i, ret, lastRead,
                   expected, cont, r, retval, reply, j, maxidx>>
    /\ die_unlock
    /\ UNCHANGED <<g_locked_tty, call, result, locker, inflight>>

\* update_nodes, after the command list
update_nodes ==
    /\ pc = "update_nodes"
    /\ send_then_recv(Ord("E"), UpdateText, "exit")
    /\ die_unlock
    /\ UNCHANGED <<g_locked_tty, call, result, locker, hret, inflight>>

\* main's out: label: unlock_tty(dev); return ret
main_exit ==
    /\ pc = "exit"
    /\ pc' = "done"
    /\ UNCHANGED <<mode, cmd, file, fpos, framing, trace, i, ret, lastRead,
                   expected, cont, r, retval, reply, j, maxidx>>
    /\ lockfile' = unlock_tty(lockfile)
    /\ UNCHANGED <<g_locked_tty, call, result, locker, hret, inflight>>


(***************************************************************************)
(* Firmware files: Intel-HEX lines :LLAAAATT[DD..]CC, one record per line. *)
(***************************************************************************)
\* a record's line, without its terminator
HexLine(ll, aaaa, tt, dd, cc) == Str(<<":">> \o ll \o aaaa \o tt \o dd \o cc)

\* n data bytes "A5"
DataChars(n) == [k \in 1..(2 * n) |-> IF k % 2 = 1 THEN "A" ELSE "5"]

\* an extended-address record (type 04): 15 characters
LineExt   == HexLine(<<"0", "2">>, <<"0", "0", "0", "0">>, <<"0", "4">>,
                     <<"0", "8", "0", "0">>, <<"F", "2">>)
\* data records of 1 and 16 data bytes: 13 and 43 characters
LineData1 == HexLine(<<"0", "1">>, <<"1", "2", "3", "4">>, <<"0", "0">>,
                     <<"5", "A">>, <<"5", "F">>)
LineData16 == HexLine(<<"1", "0">>, <<"A", "B", "C", "D">>, <<"0", "0">>,
                      DataChars(16), <<"9", "F">>)
\* type-00 records of 0 and 17 data bytes: 11 and 45 characters
LineData0 == HexLine(<<"0", "0">>, <<"0", "0", "2", "0">>, <<"0", "0">>,
                     <<>>, <<"E", "0">>)
LineData17 == HexLine(<<"1", "1">>, <<"0", "2", "0", "0">>, <<"0", "0">>,
                      DataChars(17), <<"3", "8">>)

FwLines == {LineExt, LineData1, LineData16, LineData0, LineData17}

\* the lines of a Zensys (EEPROM) image, which the program does not decode
ZenLines == {LineData1, LineData16}

\* line terminators of a firmware file: DOS or Unix
Eols == {<<CR, LF>>, <<LF>>}

\* the sequences of at most n lines of L
Bodies(L, n) == UNION { [1..m -> L] : m \in 0..n }

\* the files of at most MaxFileLines lines: the empty file, Zensys images
\* (data records only) and ST images (an extended-address record first)
FileLines ==
    Bodies(ZenLines, MaxFileLines)
      \cup { <<LineExt>> \o b : b \in Bodies(FwLines, MaxFileLines - 1) }

\* a data record of 26 data bytes: 63 characters, which do not fit fgets's
\* buffer together with the terminator
LineLong == HexLine(<<"1", "A">>, <<"0", "3", "0", "0">>, <<"0", "0">>,
                    DataChars(26), <<"4", "1">>)

\* further files: a last line without terminator, a line longer than the
\* buffer, and a first line that is no record.  (Every ':' line of a file
\* has the 9 characters up to its type field.)
OddFiles ==
    { <<LineData1>>,
      <<LineExt \o <<CR, LF>>, LineData1>>,
      <<LineLong \o <<CR, LF>>>>,
      <<LineExt \o <<CR, LF>>, LineLong \o <<CR, LF>>>>,
      <<Str(<<"X", "0", "0">>) \o <<CR, LF>>>> }

Files ==
    { [k \in 1..Len(ls) |-> ls[k] \o eol] : ls \in FileLines, eol \in Eols }
      \cup OddFiles

\* what successive fgets(buf, BUFLEN, f) calls store for one line of the
\* file: at most BUFLEN - 1 characters each
RECURSIVE Chunks(_)
Chunks(l) ==
    IF Len(l) <= BUFLEN - 1 THEN <<l>>
    ELSE <<SubSeq(l, 1, BUFLEN - 1)>> \o Chunks(SubSeq(l, BUFLEN, Len(l)))

RECURSIVE Reads(_)
Reads(f) == IF f = <<>> THEN <<>> ELSE Chunks(f[1]) \o Reads(Tail(f))

\* fgets(buf, BUFLEN, f): the string stored by the call number pos + 1, or
\* NULL (<<>>) at the end of the file
fgets(f, pos) ==
    LET rs == Reads(f) IN IF pos < Len(rs) THEN rs[pos + 1] ELSE <<>>

\* index(s, c): the place of the first c in s, 0 for NULL
index(str, c) ==
    IF \E k \in 1..Len(str) : str[k] = c
    THEN CHOOSE k \in 1..Len(str) : str[k] = c /\ \A m \in 1..(k - 1) : str[m] # c
    ELSE 0

\* newline = index(buf, '\n'); if (*newline) *newline = 0;
\* newline = index(buf, '\r'); if (*newline) *newline = 0;
\* *newline with newline == NULL ends the process (SIGSEGV)
StripEol(raw) ==
    LET p1 == index(raw, LF)
        s1 == SubSeq(raw, 1, p1 - 1)
        p2 == index(s1, CR)
    IN  IF p1 = 0 THEN [crash |-> TRUE, s |-> raw]
        ELSE IF p2 = 0 THEN [crash |-> TRUE, s |-> s1]
        ELSE [crash |-> FALSE, s |-> SubSeq(s1, 1, p2 - 1)]

\* variant: only buf[7] is tested
IsDataRecord_first(buf) == buf[8] = Ord("0")

\* handle_upgrade:  buf[7] == '0' && buf[8] == '0'
IsDataRecord(buf) == buf[8] = Ord("0") /\ buf[9] = Ord("0")

\* variant: only buf[7] is tested
IsNotDataRecord_first(buf) == buf[8] # Ord("0")

\* variant: && in place of ||
IsNotDataRecord_and(buf) == buf[8] # Ord("0") /\ buf[9] # Ord("0")

\* upgrade_st:  buf[7] != '0' || buf[8] != '0'
IsNotDataRecord(buf) == buf[8] # Ord("0") \/ buf[9] # Ord("0")

(***************************************************************************)
(* ST bootloader frames (src/vrctl.c, st_parsehex, st_xor, upgrade_st).    *)
(***************************************************************************)
\* variant: > 'A' in place of >= 'A'
st_parsehex_gt(c1, c2) ==
    LET hi == IF c1 > Ord("A") THEN U8((10 + c1 - Ord("A")) * 16)
              ELSE U8((c1 - Ord("0")) * 16)
        lo == IF c2 > Ord("A") THEN 10 + c2 - Ord("A")
              ELSE c2 - Ord("0")
    IN  U8(BitOr(hi, lo))

\* st_parsehex(out, in): the byte stored in *out from in[0], in[1]
st_parsehex(c1, c2) ==
    LET hi == IF c1 >= Ord("A") THEN U8((10 + c1 - Ord("A")) * 16)
              ELSE U8((c1 - Ord("0")) * 16)
        lo == IF c2 >= Ord("A") THEN 10 + c2 - Ord("A")
              ELSE c2 - Ord("0")
    IN  U8(BitOr(hi, lo))

RECURSIVE XorFold(_, _)
XorFold(out, len) ==
    IF len = 0 THEN 0 ELSE BitXor(XorFold(out, len - 1), out[len])

\* variant: res starts at 0xff
st_xor_ff(out, len) ==
    [k \in 1..(len + 1) |-> IF k <= len THEN out[k] ELSE BitXor(255, XorFold(out, len))]

\* st_xor(out, len): out[len] = out[0] ^ ... ^ out[len-1]; the frame of
\* len + 1 bytes (a sequence: C's out[k] is out[k + 1] here)
st_xor(out, len) ==
    [k \in 1..(len + 1) |-> IF k <= len THEN out[k] ELSE XorFold(out, len)]

SyncByte == <<127>>
\* upgrade_st:  buf[0] == 0x79
AckByte == 121

\* variant: the first two erase commands in the other order
EraseCmds_swapped ==
    << [out |-> <<2, 253>>, inlen |-> 5],
       [out |-> <<1, 254>>, inlen |-> 5],
       [out |-> <<67, 188>>, inlen |-> 1],
       [out |-> <<62>> \o [k \in 1..63 |-> k] \o <<62>>, inlen |-> 1] >>

\* the erase commands of upgrade_st: [out, inlen]
EraseCmds ==
    << [out |-> <<1, 254>>, inlen |-> 5],
       [out |-> <<2, 253>>, inlen |-> 5],
       [out |-> <<67, 188>>, inlen |-> 1],
       [out |-> <<62>> \o [k \in 1..63 |-> k] \o <<62>>, inlen |-> 1] >>

WriteMemoryCmd == <<49, 206>>
GoCmd == <<33, 222>>
JumpFrame == <<8, 0, 0, 0, 8>>

\* memcpy(binbuf, "\x08\x00\x00\x00", 5); st_parsehex(&binbuf[2], &buf[3]);
\* st_parsehex(&binbuf[3], &buf[5]); st_xor(binbuf, 4)
AddressFrame(buf) ==
    st_xor(<<8, 0, st_parsehex(buf[4], buf[5]), st_parsehex(buf[6], buf[7]), 0>>, 4)

\* variant: lines of up to 45 characters pass
LineMalformed_wide(len) == len < 13 \/ len > 45

\* len < 13 || len > 43
LineMalformed(len) == len < ST_MIN_LINE \/ len > ST_MAX_LINE

\* len = (len - 11) >> 1
DataLen(len) == (len - 11) \div 2

\* binbuf[0] = len - 1; st_parsehex(&binbuf[j + 1], &buf[9 + j * 2]) for
\* j < len; st_xor(binbuf, len + 1): the len + 2 bytes sent
PayloadFrame(buf) ==
    LET len == DataLen(Len(buf))
    IN  st_xor(<<U8(len - 1)>> \o
               [k \in 1..len |-> st_parsehex(buf[10 + (k - 1) * 2], buf[11 + (k - 1) * 2])],
               len + 1)

\* the highest index of binbuf written while the payload frame is built:
\* that of st_xor's out[len]
PayloadMaxIndex(buf) == DataLen(Len(buf)) + 1

\* bytes the bootloader may answer with: 0x79, and 0x1F for any other
ReplyBytes == {AckByte, 31}


(***************************************************************************)
(* handle_upgrade (src/vrctl.c).                                           *)
(***************************************************************************)
\* fgets of the first line, the test of buf[0], fseek, and the choice of
\* the protocol from buf[7], buf[8]
handle_upgrade ==
    /\ pc = "handle_upgrade"
    /\ LET buf == fgets(file, 0)
       IN  IF buf = <<>> \/ buf[1] # Ord(":")
           THEN Die
           ELSE IF IsDataRecord(buf)
           THEN pc' = "upgrade_zensys"
           ELSE pc' = "upgrade_st"
    /\ fpos' = 0
    /\ UNCHANGED <<mode, cmd, file, framing, trace, i, ret, lastRead,
                   expected, cont, r, retval, reply, j, maxidx>>
    /\ die_unlock
    /\ UNCHANGED <<g_locked_tty, call, result, locker, hret, inflight>>

\* fclose(f); info(...); return ret; and main's goto out
handle_upgrade_return ==
    /\ pc = "upgrade_return"
    /\ pc' = "exit"
    /\ UNCHANGED <<mode, cmd, file, fpos, framing, trace, i, ret, lastRead,
                   expected, cont, r, retval, reply, j, maxidx>>
    /\ die_unlock
    /\ UNCHANGED <<g_locked_tty, call, result, locker, hret, inflight>>

(***************************************************************************)
(* upgrade_st (src/vrctl.c).                                               *)
(***************************************************************************)
\* st_cmd(devfd, out, outlen, inlen): write(devfd, out, outlen), then
\* st_getbytes of inlen bytes when inlen != 0; res is st_getbytes's outcome
\* and b the value of the bytes read
st_cmd(out, outlen, inlen, res, b) ==
    /\ trace' = trace \o <<EvWrite(framing, SubSeq(out, 1, outlen))>>
                      \o (IF inlen # 0 /\ res = "ok"
                          THEN <<EvRead(framing, inlen)>> ELSE <<>>)
    /\ reply' = IF inlen # 0 /\ res = "ok" THEN [k \in 1..inlen |-> b] ELSE reply

\* inlen && st_getbytes(devfd, buf, inlen) < 0
st_cmd_dies(inlen, res) == inlen # 0 /\ res # "ok"

GetbytesOutcomes == {"ok", "fail"}

\* st_termsetup(devfd) on entry
upgrade_st ==
    /\ pc = "upgrade_st"
    /\ \E ok \in BOOLEAN :
        IF ok
        THEN /\ framing' = st_termsetup(framing)
             /\ trace' = trace \o <<EvTermios(st_termsetup(framing))>>
             /\ pc' = "st_sync"
        ELSE /\ UNCHANGED <<framing, trace>>
             /\ Die
    /\ i' = 0
    /\ UNCHANGED <<mode, cmd, file, fpos, ret, lastRead,
                   expected, cont, r, retval, reply, j, maxidx>>
    /\ die_unlock
    /\ UNCHANGED <<g_locked_tty, call, result, locker, hret, inflight>>

\* one sync attempt: flush_bytes, write of 0x7f, st_getbytes of 1 byte (kept
\* in reply), the test for 0x79, and, unless recovery is due, the test of
\* i == 4 and i++
st_sync ==
    /\ pc = "st_sync"
    /\ \E flushed \in BOOLEAN, res \in GetbytesOutcomes, b \in ReplyBytes :
        IF ~flushed
        THEN /\ Die
             /\ UNCHANGED <<trace, reply, i, j>>
        ELSE /\ trace' = trace \o <<EvFlush(framing), EvWrite(framing, SyncByte)>>
             /\ reply' = IF res = "ok" THEN <<b>> ELSE reply
             /\ IF res = "ok" /\ b = AckByte
                THEN /\ pc' = "st_erase"
                     /\ j' = 0
                     /\ i' = i
                ELSE IF i = ST_RECOVERY_ATTEMPT
                THEN /\ pc' = "st_recover"
                     /\ UNCHANGED <<i, j>>
                ELSE IF i = ST_LAST_ATTEMPT
                THEN /\ Die
                     /\ UNCHANGED <<i, j>>
                ELSE /\ pc' = "st_sync"
                     /\ i' = i + 1
                     /\ j' = j
    /\ UNCHANGED <<mode, cmd, file, fpos, framing, ret, lastRead,
                   expected, cont, r, retval, maxidx>>
    /\ die_unlock
    /\ UNCHANGED <<g_locked_tty, call, result, locker, hret, inflight>>

RecoveryText == Str(<<">", "C", "B">>)

\* the steps of the software recovery, in order
RecoverySteps(f0) ==
    LET f1 == set_tty_defaults(f0, 9600).f
        f2 == st_termsetup(f1)
    IN  << EvTermios(f1),
           EvWrite(f1, write_line(<<>>)),
           EvWrite(f1, write_line(RecoveryText)),
           EvSleep(f1, 20000),
           EvFlush(f1),
           EvTermios(f2),
           EvSleep(f2, 20000) >>

\* the steps done when die() is called in write_line (the first or the
\* second), in flush_bytes or in st_termsetup
RecoveryDiePoints == {1, 2, 4, 5}

\* if (i == 2) { ... }: the software recovery, then i++
st_recover ==
    /\ pc = "st_recover"
    /\ \E n \in RecoveryDiePoints \cup {7} :
        /\ trace' = trace \o SubSeq(RecoverySteps(framing), 1, n)
        /\ framing' = IF n >= 6 THEN st_termsetup(set_tty_defaults(framing, 9600).f)
                      ELSE set_tty_defaults(framing, 9600).f
        /\ IF n = 7
           THEN /\ pc' = "st_sync"
                /\ i' = i + 1
           ELSE /\ Die
                /\ i' = i
    /\ UNCHANGED <<mode, cmd, file, fpos, ret, lastRead,
                   expected, cont, r, retval, reply, j, maxidx>>
    /\ die_unlock
    /\ UNCHANGED <<g_locked_tty, call, result, locker, hret, inflight>>

\* the next of the four erase commands
st_erase ==
    /\ pc = "st_erase"
    /\ j < Len(EraseCmds)
    /\ \E res \in GetbytesOutcomes, b \in ReplyBytes :
        /\ st_cmd(EraseCmds[j + 1].out, Len(EraseCmds[j + 1].out),
                  EraseCmds[j + 1].inlen, res, b)
        /\ IF st_cmd_dies(EraseCmds[j + 1].inlen, res)
           THEN /\ Die
                /\ j' = j
           ELSE /\ j' = j + 1
                /\ pc' = IF j + 1 = Len(EraseCmds) THEN "st_prog" ELSE "st_erase"
    /\ UNCHANGED <<mode, cmd, file, fpos, framing, i, ret, lastRead,
                   expected, cont, r, retval, maxidx>>
    /\ die_unlock
    /\ UNCHANGED <<g_locked_tty, call, result, locker, hret, inflight>>

\* the head of the programming loop: fgets, the strip of the terminator,
\* the record-type test and the write-memory command
st_prog ==
    /\ pc = "st_prog"
    /\ LET raw == fgets(file, fpos)
           buf == StripEol(raw)
       IN  IF raw = <<>> \/ raw[1] # Ord(":")
           THEN /\ pc' = "st_finalize"
                /\ fpos' = IF raw = <<>> THEN fpos ELSE fpos + 1
                /\ UNCHANGED <<trace, reply>>
           ELSE /\ fpos' = fpos + 1
                /\ IF buf.crash
                   THEN /\ pc' = "crashed"
                        /\ UNCHANGED <<trace, reply>>
                   ELSE IF IsNotDataRecord(buf.s)
                   THEN /\ pc' = "st_prog"
                        /\ UNCHANGED <<trace, reply>>
                   ELSE \E res \in GetbytesOutcomes, b \in ReplyBytes :
                           /\ st_cmd(WriteMemoryCmd, 2, 1, res, b)
                           /\ IF st_cmd_dies(1, res) THEN Die ELSE pc' = "st_addr"
    /\ UNCHANGED <<mode, cmd, file, framing, i, ret, lastRead,
                   expected, cont, r, retval, j, maxidx>>
    /\ die_unlock
    /\ UNCHANGED <<g_locked_tty, call, result, locker, hret, inflight>>

\* the set-address frame of the record read last
st_addr ==
    /\ pc = "st_addr"
    /\ LET buf == StripEol(fgets(file, fpos - 1)).s
       IN  \E res \in GetbytesOutcomes, b \in ReplyBytes :
            /\ st_cmd(AddressFrame(buf), 5, 1, res, b)
            /\ IF st_cmd_dies(1, res) THEN Die ELSE pc' = "st_payload"
    /\ maxidx' = 4
    /\ UNCHANGED <<mode, cmd, file, fpos, framing, i, ret, lastRead,
                   expected, cont, r, retval, j>>
    /\ die_unlock
    /\ UNCHANGED <<g_locked_tty, call, result, locker, hret, inflight>>

\* the length test and the payload frame of the record read last
st_payload ==
    /\ pc = "st_payload"
    /\ LET buf == StripEol(fgets(file, fpos - 1)).s
           len == Len(buf)
       IN  IF LineMalformed(len)
           THEN /\ ret' = 1
                /\ pc' = "st_prog"
                /\ UNCHANGED <<trace, reply, maxidx>>
           ELSE \E res \in GetbytesOutcomes, b \in ReplyBytes :
                   /\ st_cmd(PayloadFrame(buf), DataLen(len) + 2, 1, res, b)
                   /\ maxidx' = PayloadMaxIndex(buf)
                   /\ IF st_cmd_dies(1, res) THEN Die ELSE pc' = "st_prog"
                   /\ ret' = ret
    /\ UNCHANGED <<mode, cmd, file, fpos, framing, i, lastRead,
                   expected, cont, r, retval, j>>
    /\ die_unlock
    /\ UNCHANGED <<g_locked_tty, call, result, locker, hret, inflight>>

\* st_cmd(devfd, "\x21\xde", 2, 1)
st_finalize ==
    /\ pc = "st_finalize"
    /\ \E res \in GetbytesOutcomes, b \in ReplyBytes :
        /\ st_cmd(GoCmd, 2, 1, res, b)
        /\ IF st_cmd_dies(1, res) THEN Die ELSE pc' = "st_jump"
    /\ UNCHANGED <<mode, cmd, file, fpos, framing, i, ret, lastRead,
                   expected, cont, r, retval, j, maxidx>>
    /\ die_unlock
    /\ UNCHANGED <<g_locked_tty, call, result, locker, hret, inflight>>

\* st_cmd(devfd, "\x08\x00\x00\x00\x08", 5, 0); return ret
st_jump ==
    /\ pc = "st_jump"
    /\ st_cmd(JumpFrame, 5, 0, "ok", AckByte)
    /\ pc' = "upgrade_return"
    /\ UNCHANGED <<mode, cmd, file, fpos, framing, i, ret, lastRead,
                   expected, cont, r, retval, j, maxidx>>
    /\ die_unlock
    /\ UNCHANGED <<g_locked_tty, call, result, locker, hret, inflight>>


(***************************************************************************)
(* upgrade_zensys (src/vrctl.c).                                           *)
(***************************************************************************)
\* read_resp: read_line, with die() on -ENOSPC and -ETIMEDOUT (and
\* read_byte's die() on a read error)
read_resp_dies(rd) == rd.st # "line"

\* upgrade_zensys starts with sync_interface(devfd)
upgrade_zensys ==
    /\ pc = "upgrade_zensys"
    /\ pc' = "sync_interface"
    /\ UNCHANGED <<mode, cmd, file, fpos, framing, trace, i, ret, lastRead,
                   expected, cont, r, retval, reply, j, maxidx>>
    /\ die_unlock
    /\ UNCHANGED <<g_locked_tty, call, result, locker, hret, inflight>>

EntryText == Str(<<">", "Z", "B">>)

\* write_line(devfd, ">ZB")
zensys_entry ==
    /\ pc = "zensys_entry"
    /\ \E ok \in BOOLEAN :
        IF ok
        THEN /\ trace' = trace \o <<EvWrite(framing, write_line(EntryText))>>
             /\ pc' = "zensys_handshake"
        ELSE /\ trace' = trace
             /\ Die
    /\ j' = 0
    /\ UNCHANGED <<mode, cmd, file, fpos, framing, i, ret, lastRead,
                   expected, cont, r, retval, reply, maxidx>>
    /\ die_unlock
    /\ UNCHANGED <<g_locked_tty, call, result, locker, hret, inflight>>

\* variant: the preamble is awaited last
HandshakeLines_swapped ==
    << [lit |-> AckLine, n |-> 5, timeout_us |-> TIMEOUT],
       [lit |-> ReadyLine, n |-> 5, timeout_us |-> TIMEOUT],
       [lit |-> PreambleLine, n |-> 13, timeout_us |-> TIMEOUT_UPGRADE] >>

\* the three responses to ">ZB": the literal, the n of each strncmp and the
\* timeout of each read_resp
HandshakeLines ==
    << [lit |-> AckLine, n |-> 5, timeout_us |-> TIMEOUT],
       [lit |-> PreambleLine, n |-> 13, timeout_us |-> TIMEOUT],
       [lit |-> ReadyLine, n |-> 5, timeout_us |-> TIMEOUT_UPGRADE] >>

\* the next of the three reads after ">ZB"
zensys_handshake ==
    /\ pc = "zensys_handshake"
    /\ j < Len(HandshakeLines)
    /\ trace' = trace \o <<EvLine(framing, HandshakeLines[j + 1].timeout_us)>>
    /\ \E rd \in ReadOutcomes :
        /\ lastRead' = rd
        /\ IF read_resp_dies(rd)
           THEN /\ Die
                /\ j' = j
           ELSE IF ~strncmp_eq(StoreStr(rd.s, ZeroBuf), 0,
                               HandshakeLines[j + 1].lit, HandshakeLines[j + 1].n)
           THEN /\ Die
                /\ j' = j
           ELSE /\ j' = j + 1
                /\ pc' = IF j + 1 = Len(HandshakeLines)
                         THEN "zensys_prog" ELSE "zensys_handshake"
    /\ UNCHANGED <<mode, cmd, file, fpos, framing, i, ret,
                   expected, cont, r, retval, reply, maxidx>>
    /\ die_unlock
    /\ UNCHANGED <<g_locked_tty, call, result, locker, hret, inflight>>

\* the head of the programming loop: fgets, the strip of the terminator and
\* write_line of the firmware line.  When the loop ends here buf[0] is not
\* ':' (buf holds the line fgets rejected or the response read last)
zensys_prog ==
    /\ pc = "zensys_prog"
    /\ LET raw == fgets(file, fpos)
           buf == StripEol(raw)
       IN  IF raw = <<>> \/ raw[1] # Ord(":")
           THEN /\ pc' = "zensys_drain"
                /\ fpos' = IF raw = <<>> THEN fpos ELSE fpos + 1
                /\ trace' = trace
           ELSE /\ fpos' = fpos + 1
                /\ IF buf.crash
                   THEN /\ pc' = "crashed"
                        /\ trace' = trace
                   ELSE \E ok \in BOOLEAN :
                           IF ok
                           THEN /\ trace' = trace \o <<EvWrite(framing, write_line(buf.s))>>
                                /\ pc' = "zensys_ack"
                           ELSE /\ trace' = trace
                                /\ Die
    /\ UNCHANGED <<mode, cmd, file, framing, i, ret, lastRead,
                   expected, cont, r, retval, reply, j, maxidx>>
    /\ die_unlock
    /\ UNCHANGED <<g_locked_tty, call, result, locker, hret, inflight>>

\* variant: strcmp in place of strncmp
AckIsClean_exact(s) == strcmp_eq(StoreStr(s, ZeroBuf), AckLine)

\* strncmp(buf, "<E000", 5) == 0
AckIsClean(s) == strncmp_eq(StoreStr(s, ZeroBuf), 0, AckLine, 5)

\* the acknowledgment of a firmware line
zensys_ack ==
    /\ pc = "zensys_ack"
    /\ trace' = trace \o <<EvLine(framing, TIMEOUT_UPGRADE)>>
    /\ \E rd \in ReadOutcomes :
        /\ lastRead' = rd
        /\ IF read_resp_dies(rd)
           THEN /\ Die
                /\ ret' = ret
           ELSE /\ pc' = "zensys_followup"
                /\ ret' = IF ~AckIsClean(rd.s) THEN 1 ELSE ret
    /\ UNCHANGED <<mode, cmd, file, fpos, framing, i,
                   expected, cont, r, retval, reply, j, maxidx>>
    /\ die_unlock
    /\ UNCHANGED <<g_locked_tty, call, result, locker, hret, inflight>>

\* variant: the loop never ends on a follow-up line
IsFinalLine_never(s) == s[1] = Ord(":") /\ s[1] = Ord("<")

\* /* final line */  if (buf[0] == ':') break;
IsFinalLine(s) == s[1] = Ord(":")

\* the line after the acknowledgment
zensys_followup ==
    /\ pc = "zensys_followup"
    /\ trace' = trace \o <<EvLine(framing, TIMEOUT_UPGRADE)>>
    /\ \E rd \in ReadOutcomes :
        /\ lastRead' = rd
        /\ IF read_resp_dies(rd)
           THEN /\ Die
                /\ ret' = ret
           ELSE IF strncmp_eq(StoreStr(rd.s, ZeroBuf), 0, ReadyLine, 2)
           THEN /\ pc' = "zensys_prog"
                /\ ret' = ret
           ELSE IF IsFinalLine(rd.s)
           THEN /\ pc' = "zensys_verify"
                /\ ret' = ret
           ELSE /\ pc' = "zensys_prog"
                /\ ret' = 1
    /\ UNCHANGED <<mode, cmd, file, fpos, framing, i,
                   expected, cont, r, retval, reply, j, maxidx>>
    /\ die_unlock
    /\ UNCHANGED <<g_locked_tty, call, result, locker, hret, inflight>>

\* while (buf[0] != ':') read_resp(...)
zensys_drain ==
    /\ pc = "zensys_drain"
    /\ \E rd \in ReadOutcomes :
        /\ lastRead' = rd
        /\ IF read_resp_dies(rd)
           THEN Die
           ELSE pc' = IF rd.s[1] = Ord(":") THEN "zensys_verify" ELSE "zensys_drain"
    /\ UNCHANGED <<mode, cmd, file, fpos, framing, trace, i, ret,
                   expected, cont, r, retval, reply, j, maxidx>>
    /\ die_unlock
    /\ UNCHANGED <<g_locked_tty, call, result, locker, hret, inflight>>

\* variant: only the first character is compared
VerifyDone_first(s) == strncmp_eq(StoreStr(s, ZeroBuf), 0, ReadyLine, 1)

\* strncmp(buf, "<B000", 5) == 0
VerifyDone(s) == strncmp_eq(StoreStr(s, ZeroBuf), 0, ReadyLine, 5)

\* do read_resp(...) while (strncmp(buf, "<B000", 5) != 0); return ret
zensys_verify ==
    /\ pc = "zensys_verify"
    /\ \E rd \in ReadOutcomes :
        /\ lastRead' = rd
        /\ IF read_resp_dies(rd)
           THEN Die
           ELSE pc' = IF VerifyDone(rd.s) THEN "upgrade_return" ELSE "zensys_verify"
    /\ UNCHANGED <<mode, cmd, file, fpos, framing, trace, i, ret,
                   expected, cont, r, retval, reply, j, maxidx>>
    /\ die_unlock
    /\ UNCHANGED <<g_locked_tty, call, result, locker, hret, inflight>>

(***************************************************************************)
(* The specification.                                                      *)
(***************************************************************************)
Init ==
    /\ pc = "main"
    /\ \/ /\ mode = "cmd"
          /\ cmd \in {"on", "off", "toggle", "level"}
          /\ file = <<>>
       \/ /\ mode = "upgrade"
          /\ cmd = "none"
          /\ file \in Files
    /\ fpos = 0
    /\ framing = set_tty_defaults(Normal, 9600).f
    /\ trace = <<>>
    /\ i = 0
    /\ ret = 0
    /\ lastRead = NoRead
    /\ expected = 0
    /\ cont = "none"
    /\ r = NoResp
    /\ retval = -1
    /\ reply = <<>>
    /\ j = 0
    /\ maxidx = 0
    /\ lockfile \in {"absent", "other", "stale"}
    /\ g_locked_tty = FALSE
    /\ call = NoCall
    /\ result = NoCall
    /\ locker = <<>>
    /\ hret = <<>>
    /\ inflight = <<>>

Next ==
    \/ main
    \/ sync_interface
    \/ sync_write
    \/ sync_read
    \/ run_command
    \/ handle_status_quiet
    \/ handle_toggle
    \/ handler_return
    \/ wait_resp
    \/ update_nodes
    \/ main_exit
    \/ handle_upgrade
    \/ handle_upgrade_return
    \/ upgrade_st
    \/ st_sync
    \/ st_recover
    \/ st_erase
    \/ st_prog
    \/ st_addr
    \/ st_payload
    \/ st_finalize
    \/ st_jump
    \/ upgrade_zensys
    \/ zensys_entry
    \/ zensys_handshake
    \/ zensys_prog
    \/ zensys_ack
    \/ zensys_followup
    \/ zensys_drain
    \/ zensys_verify

Spec == Init /\ [][Next]_vars

(***************************************************************************)
(* Functions applied on their own: the arguments are drawn by InitFn, the  *)
(* function is applied by one step.                                        *)
(***************************************************************************)
\* values of an unsigned char
XorBytes == {0, 1, 127, 128, 255}

\* st_xor(out, len) on a buffer of len + 1 bytes, out[len] holding any byte
XorCalls ==
    UNION { { [fn |-> "st_xor", out |-> o, len |-> n] : o \in [1..(n + 1) -> XorBytes] } :
            n \in 0..MaxXorLen }

\* write_line(fd, buf) with a text
WriteLineCalls ==
    UNION { { [fn |-> "write_line", buf |-> t] : t \in [1..n -> {62, 78}] } :
            n \in 0..MaxTextLen }

\* st_cmd(devfd, out, outlen, inlen) as upgrade_st calls it
StCmdCalls ==
    { [fn |-> "st_cmd", out |-> EraseCmds[1].out, inlen |-> EraseCmds[1].inlen],
      [fn |-> "st_cmd", out |-> WriteMemoryCmd, inlen |-> 1],
      [fn |-> "st_cmd", out |-> JumpFrame, inlen |-> 0] }

\* read_line(fd, buf, maxlen, timeout_us)
ReadLineCalls ==
    { [fn |-> "read_line", maxlen |-> n, timeout_us |-> ReadTicks] : n \in 2..MaxLineBuf }

\* the bytes the device sends during a read_line
LineBytes == {CR, LF, 65, 66}

\* variant: only CR ends a line
IsEol_cr(c) == c = CR

\* read_line:  c == '\r' || c == '\n'
IsEol(c) == c = CR \/ c = LF

\* format bytes and values of temperature reports
TempFmts == {0, 1, 2, 3, 9, 34, 42}
TempVals == {0, 1, 9, 255, 256, 999}

\* what follows ":049,005,001," in a report: the format and up to two
\* values, whole or cut short
TempTexts ==
    {<<>>, <<49>>}
      \cup { Dec3(f) : f \in TempFmts }
      \cup { Dec3(f) \o <<44>> \o Dec3(a) : f \in TempFmts, a \in TempVals }
      \cup { Dec3(f) \o <<44>> \o SubSeq(Dec3(a), 2, 3) : f \in TempFmts, a \in TempVals }
      \cup { Dec3(f) \o <<44>> \o Dec3(a) \o <<44>> \o Dec3(b) :
               f \in TempFmts, a \in TempVals, b \in TempVals }
      \cup { Dec3(f) \o <<44>> \o Dec3(a) \o <<44>> \o SubSeq(Dec3(b), 3, 3) :
               f \in TempFmts, a \in TempVals, b \in TempVals }

TempHead == Str(<<"<", "N", "0", "0", "4">>) \o TempPrefix1

\* the lines parse_resp is given
ParseLines ==
    RespLines
      \cup { Str(<<"<">>), Str(<<"<", "X">>), Str(<<"<", "1", "0", "0", "0">>),
             Str(<<"<", "X", "2", "5", "5">>), Str(<<"<", "X", "2", "5", "6">>),
             Str(<<"<", "X", "9", "9", "9">>), Str(<<"<", "X", "1", "2", "A">>) }
      \cup { TempHead \o t : t \in TempTexts }

\* what the line buffer held before: nothing, a light level, a report
ParseStale ==
    { ZeroBuf,
      StoreStr(Str(<<"<", "N", "0", "0", "3", "L", "0", "0", "0">>), ZeroBuf),
      StoreStr(TempHead \o Dec3(1) \o <<44>> \o Dec3(9), ZeroBuf) }

\* parse_resp(buf, r) on the line read into a buffer that held old
ParseCalls ==
    { [fn |-> "parse_resp", line |-> l, old |-> o] : l \in ParseLines, o \in ParseStale }

\* printf("%d", n) for n >= 0
RECURSIVE DecStr(_)
DecStr(n) == IF n < 10 THEN <<48 + n>> ELSE DecStr(n \div 10) \o <<48 + (n % 10)>>

\* the struct resp handle_temp_common prints: magnitude, precision, unit
TempPrintCalls ==
    { [fn |-> "handle_temp_common", arg1 |-> m, arg1_precision |-> p, type1 |-> u] :
        m \in {0, 5, 215, 265, 1000, 2105}, p \in 0..MaxPrecision, u \in {67, 70} }

InitFn ==
    /\ pc = "call"
    /\ mode = "none"
    /\ cmd = "none"
    /\ file = <<>>
    /\ fpos = 0
    /\ framing = Normal
    /\ trace = <<>>
    /\ i = 0
    /\ ret = 0
    /\ lastRead = NoRead
    /\ expected = 0
    /\ cont = "none"
    /\ r = NoResp
    /\ retval = -1
    /\ reply = <<>>
    /\ j = 0
    /\ maxidx = 0
    /\ lockfile = "absent"
    /\ g_locked_tty = FALSE
    /\ call \in XorCalls \cup WriteLineCalls \cup StCmdCalls \cup ReadLineCalls
                \cup ParseCalls \cup TempPrintCalls
    /\ result = NoCall
    /\ locker = <<>>
    /\ hret = <<>>
    /\ inflight = <<>>

st_xor_call ==
    /\ pc = "call"
    /\ call.fn = "st_xor"
    /\ pc' = "returned"
    /\ result' = [fn |-> "st_xor", out |-> st_xor(call.out, call.len)]
    /\ UNCHANGED <<mode, cmd, file, fpos, framing, trace, i, ret, lastRead,
                   expected, cont, r, retval, reply, j, maxidx,
                   lockfile, g_locked_tty, call, locker, hret, inflight>>

FnUnchanged ==
    UNCHANGED <<mode, cmd, file, fpos, framing, trace, i, ret, lastRead,
                expected, cont, r, retval, reply, j, maxidx,
                lockfile, g_locked_tty, call, locker, hret, inflight>>

\* write_line(fd, buf), one write() of write_loop per step:
\*   write_loop(fd, buf, len); write_loop(fd, eol, 2);
\* each write() transfers n of the bytes its write_loop has left, n <= 0
\* (here 0) being die().  result.wire is what the device was sent so far.
write_line_call ==
    /\ pc = "call"
    /\ call.fn = "write_line"
    /\ LET wire == IF result = NoCall THEN <<>> ELSE result.wire
           all  == write_line(call.buf)
           end  == IF Len(wire) < Len(call.buf) THEN Len(call.buf) ELSE Len(all)
       IN  \E n \in 0..(end - Len(wire)) :
              /\ result' = [fn |-> "write_line",
                            wire |-> wire \o SubSeq(all, Len(wire) + 1, Len(wire) + n)]
              /\ pc' = IF n = 0 THEN "dead"
                       ELSE IF Len(wire) + n = Len(all) THEN "returned"
                       ELSE "call"
    /\ FnUnchanged

\* st_cmd(devfd, out, outlen, inlen):  write(devfd, out, outlen), whose
\* result n (here 0 for n <= 0) is not looked at; then st_getbytes if inlen
st_cmd_call ==
    /\ pc = "call"
    /\ call.fn = "st_cmd"
    /\ result = NoCall
    /\ \E n \in 0..Len(call.out) :
          result' = [fn |-> "st_cmd", wire |-> SubSeq(call.out, 1, n), len |-> call.inlen]
    /\ pc' = IF call.inlen # 0 THEN "call" ELSE "returned"
    /\ FnUnchanged

\* one turn of st_getbytes's loop, for st_cmd: select, then read(devfd, buf,
\* len), which transfers n of the len bytes; no byte in time or n <= 0 (here
\* 0) returns -1, and st_cmd calls die()
st_getbytes_call ==
    /\ pc = "call"
    /\ call.fn = "st_cmd"
    /\ result # NoCall
    /\ \E n \in 0..result.len :
          /\ result' = [result EXCEPT !.len = @ - n]
          /\ pc' = IF n = 0 THEN "dead"
                   ELSE IF result.len - n = 0 THEN "returned"
                   ELSE "call"
    /\ FnUnchanged

\* the locals of read_line on entry: buf (the bytes stored so far) and len,
\* with the bytes the device sent, each with its time of arrival counted
\* from the call, the time now, the offset the NUL went to, and what is
\* returned: "len", "ETIMEDOUT" or "ENOSPC"
ReadLineEntry ==
    [fn |-> "read_line", buf |-> <<>>, len |-> 0, input |-> <<>>, now |-> 0,
     nul |-> -1, ret |-> "none"]

\* one turn of read_line's loop:  while (len < maxlen).  select() waits
\* timeout_us for a byte, from now on: the device sends c after gap ticks,
\* gap < timeout_us, or nothing in time.  read_byte() calls die() on EOF or
\* a read error.
read_line_call ==
    /\ pc = "call"
    /\ call.fn = "read_line"
    /\ LET l == IF result = NoCall THEN ReadLineEntry ELSE result
       IN  \/ /\ result' = [l EXCEPT !.now = @ + call.timeout_us, !.ret = "ETIMEDOUT"]
              /\ pc' = "returned"
           \/ /\ Len(l.input) < MaxArrivals
              /\ \E c \in LineBytes, gap \in 0..(call.timeout_us - 1), ok \in BOOLEAN :
                   LET l1 == [l EXCEPT !.now = @ + gap,
                                       !.input = Append(@, [c |-> c, t |-> l.now + gap])]
                   IN  IF ~ok
                       THEN result' = [l EXCEPT !.now = @ + gap] /\ pc' = "dead"
                       ELSE IF IsEol(c)
                       THEN IF l.len # 0
                            THEN /\ result' = [l1 EXCEPT !.nul = l.len, !.ret = "len"]
                                 /\ pc' = "returned"
                            ELSE /\ result' = l1
                                 /\ pc' = "call"
                       ELSE IF l.len + 1 < call.maxlen
                       THEN /\ result' = [l1 EXCEPT !.buf = Append(@, c), !.len = @ + 1]
                            /\ pc' = "call"
                       ELSE /\ result' = [l1 EXCEPT !.buf = Append(@, c), !.len = @ + 1,
                                                    !.nul = l.len + 1, !.ret = "ENOSPC"]
                            /\ pc' = "returned"
    /\ FnUnchanged

\* parse_resp(buf, &r) as wait_resp calls it, r not yet written
parse_resp_call ==
    /\ pc = "call"
    /\ call.fn = "parse_resp"
    /\ LET p == parse_resp(StoreStr(call.line, call.old), NoResp)
       IN  /\ result' = [fn |-> "parse_resp", ret |-> p.ret, die |-> p.die, r |-> p.r]
           /\ pc' = IF p.die THEN "dead" ELSE "returned"
    /\ FnUnchanged

\* for (precision = 1; r.arg1_precision; r.arg1_precision--) precision *= 10
RECURSIVE Pow10(_)
Pow10(p) == IF p = 0 THEN 1 ELSE 10 * Pow10(p - 1)

\* handle_temp_common, from the end of its wait on:
\*   info(L_NORMAL, "%d.%d%c\n", r.arg1 / precision, r.arg1 % precision, r.type1)
handle_temp_common_call ==
    /\ pc = "call"
    /\ call.fn = "handle_temp_common"
    /\ LET precision == Pow10(call.arg1_precision)
       IN  result' = [fn |-> "handle_temp_common",
                      text |-> DecStr(call.arg1 \div precision) \o <<46>>
                                 \o DecStr(call.arg1 % precision) \o <<call.type1>>,
                      ret |-> call.arg1]
    /\ pc' = "returned"
    /\ FnUnchanged

NextFn ==
    \/ st_xor_call
    \/ handle_temp_common_call
    \/ parse_resp_call
    \/ write_line_call
    \/ st_cmd_call
    \/ st_getbytes_call
    \/ read_line_call

SpecFn == InitFn /\ [][NextFn]_vars

(***************************************************************************)
(* lock_tty called by several processes for the same device (src/util.c,   *)
(* lock_tty / write_lockfile / unlock_tty), one system call per step.      *)
(* /var/lock is accessible.  Here the lock file is <<>> when absent, and   *)
(* else <<[owner, pid]>>: the process that created it, and the pid its     *)
(* text holds, 0 while nothing is written to it yet.                       *)
(***************************************************************************)
Procs == 1..NumProcs

\* the pid of a process that ended without removing its lock file
DeadPid == NumProcs + 1

\* kill(pid, 0) >= 0
Alive(pid) == pid \in Procs /\ locker[pid].pc # "exited"

InitLock ==
    /\ pc = "lock"
    /\ mode = "none"
    /\ cmd = "none"
    /\ file = <<>>
    /\ fpos = 0
    /\ framing = Normal
    /\ trace = <<>>
    /\ i = 0
    /\ ret = 0
    /\ lastRead = NoRead
    /\ expected = 0
    /\ cont = "none"
    /\ r = NoResp
    /\ retval = -1
    /\ reply = <<>>
    /\ j = 0
    /\ maxidx = 0
    /\ lockfile \in {<<>>, <<[owner |-> DeadPid, pid |-> DeadPid]>>}
    /\ g_locked_tty = FALSE
    /\ call = NoCall
    /\ result = NoCall
    /\ locker = [p \in Procs |-> [pc |-> "lock_tty", pid |-> 0, ret |-> 0]]
    /\ hret = <<>>
    /\ inflight = <<>>

LockUnchanged ==
    UNCHANGED <<pc, mode, cmd, file, fpos, framing, trace, i, ret, lastRead,
                expected, cont, r, retval, reply, j, maxidx, g_locked_tty,
                call, result, hret, inflight>>

\* lock_tty:  fd = open(lockname, O_RDONLY);  no file: write_lockfile;
\* else read, sscanf(buf, "%d", &pid)
lock_tty_open(p) ==
    /\ locker[p].pc = "lock_tty"
    /\ locker' = [locker EXCEPT ![p] =
          IF lockfile = <<>>
          THEN [@ EXCEPT !.pc = "write_lockfile"]
          ELSE [@ EXCEPT !.pc = "kill", !.pid = lockfile[1].pid]]
    /\ UNCHANGED lockfile
    /\ LockUnchanged

\* lock_tty:  if (pid != 0) { if (kill(pid, 0) >= 0) return -1; }
lock_tty_kill(p) ==
    /\ locker[p].pc = "kill"
    /\ locker' = [locker EXCEPT ![p] =
          IF @.pid # 0 /\ Alive(@.pid)
          THEN [@ EXCEPT !.pc = "failed", !.ret = -1]
          ELSE [@ EXCEPT !.pc = "unlink"]]
    /\ UNCHANGED lockfile
    /\ LockUnchanged

\* lock_tty:  unlink(lockname), of whatever file has the name by now
lock_tty_unlink(p) ==
    /\ locker[p].pc = "unlink"
    /\ lockfile' = <<>>
    /\ locker' = [locker EXCEPT ![p].pc = "write_lockfile"]
    /\ LockUnchanged

\* write_lockfile:  fd = open(lockname, O_RDWR | O_CREAT | O_EXCL, 0644);
\* if (fd < 0) return -1;
write_lockfile_open(p) ==
    /\ locker[p].pc = "write_lockfile"
    /\ IF lockfile = <<>>
       THEN /\ lockfile' = <<[owner |-> p, pid |-> 0]>>
            /\ locker' = [locker EXCEPT ![p].pc = "write"]
       ELSE /\ UNCHANGED lockfile
            /\ locker' = [locker EXCEPT ![p].pc = "failed", ![p].ret = -1]
    /\ LockUnchanged

\* write_lockfile:  write(fd, buf, len); close(fd); return 0;  the text goes
\* to the file p created, which may have lost its name by now
write_lockfile_write(p) ==
    /\ locker[p].pc = "write"
    /\ lockfile' = IF lockfile # <<>> /\ lockfile[1].owner = p
                   THEN <<[owner |-> p, pid |-> p]>>
                   ELSE lockfile
    /\ locker' = [locker EXCEPT ![p].pc = "locked", ![p].ret = 0]
    /\ LockUnchanged

\* main:  if (lock_tty(dev, "vrctl") < 0) die(...), g_locked_tty being NULL
lock_failed_die(p) ==
    /\ locker[p].pc = "failed"
    /\ locker' = [locker EXCEPT ![p].pc = "exited"]
    /\ UNCHANGED lockfile
    /\ LockUnchanged

\* main's out: or die():  unlock_tty(dev), the end of a process that was
\* returned 0
unlock_tty_exit(p) ==
    /\ locker[p].pc = "locked"
    /\ lockfile' = <<>>
    /\ locker' = [locker EXCEPT ![p].pc = "exited"]
    /\ LockUnchanged

NextLock ==
    \E p \in Procs :
        \/ lock_tty_open(p)
        \/ lock_tty_kill(p)
        \/ lock_tty_unlink(p)
        \/ write_lockfile_open(p)
        \/ write_lockfile_write(p)
        \/ lock_failed_die(p)
        \/ unlock_tty_exit(p)

SpecLock == InitLock /\ [][NextLock]_vars

(***************************************************************************)
(* Properties.                                                             *)
(***************************************************************************)
\* the run is an ST upgrade: the first line of the file is no data record
StRun ==
    /\ mode = "upgrade"
    /\ file # <<>>
    /\ file[1][1] = 58
    /\ ~(file[1][8] = 48 /\ file[1][9] = 48)

\* the number of events of the trace that satisfy P
Count(P(_)) == Cardinality({k \in 1..Len(trace) : P(trace[k])})

\* the positions where sync_interface has returned to its caller
AfterSync ==
    {"run_command", "handle_status_quiet", "handle_toggle", "handler_return",
     "wait_resp", "update_nodes", "exit", "done", "zensys_entry",
     "zensys_handshake", "zensys_prog", "zensys_ack", "zensys_followup",
     "zensys_drain", "zensys_verify", "upgrade_return", "crashed"}

IsProbe(e) == e.op = "write" /\ e.b = write_line(<<>>)
IsFlush(e) == e.op = "flush"

\* the line "<E000", character by character
ExactAck == <<60, 69, 48, 48, 48>>

\* C1: sync_interface, after one settle delay and one flush of the input,
\* sends at most 3 blank-line probes and reads one line after each; it returns
\* at the first probe answered by exactly "<E000" and sends no probe after
\* that; when 3 probes have failed the run is dead.
C1_SyncProbes ==
    ~StRun =>
        LET n == Count(IsProbe)
        IN  /\ n <= 3
            /\ n >= 1 => /\ trace[1] = EvSleep(Normal, 25000)
                         /\ trace[2] = EvFlush(Normal)
                         /\ Count(IsFlush) = 1
                         /\ IsProbe(trace[3])
            /\ pc = "sync_write" => n = i /\ i < 3
            /\ pc = "sync_read" => n = i + 1
            /\ pc \in {"sync_write", "sync_read"} /\ i > 0 =>
                   ~(lastRead.st = "line" /\ lastRead.s = ExactAck)
            /\ pc \in {"run_command", "zensys_entry"} =>
                   lastRead.st = "line" /\ lastRead.s = ExactAck
            /\ pc \in AfterSync => n = i + 1
            /\ ~(pc \in AfterSync) /\ i = 3 => pc = "dead" /\ n = 3

\* sync_interface returned at its second probe, and no third was sent
C1_Witness ==
    /\ pc = "run_command"
    /\ i = 1
    /\ Count(IsProbe) = 2

\* the primary code and value of a line "<Cnnn" or "<CnnnSnnn"
WellFormedLine(l) ==
    /\ Len(l) \in {5, 9}
    /\ l[1] = 60
    /\ l[2] \in 65..90
    /\ \A k \in 3..5 : l[k] \in 48..57
    /\ Len(l) = 9 => l[6] \in 65..90 /\ \A k \in 7..9 : l[k] \in 48..57
LineCode(l) == l[2]
LineValue(l) == 100 * (l[3] - 48) + 10 * (l[4] - 48) + (l[5] - 48)

IsErrorReport(rd) ==
    /\ rd.st = "line"
    /\ WellFormedLine(rd.s)
    /\ LineCode(rd.s) = 69
    /\ LineValue(rd.s) # 0

IsCmdWrite(e) == e.op = "write" /\ e.b = CmdText(cmd) \o <<CR, NUL>>

C3_ErrorAlwaysFatal == IsErrorReport(lastRead) => pc = "dead"

\* C3 (amended): an error line "<Ennn", nnn != 0, read by wait_resp aborts the
\* run; read as the reply to a probe of sync_interface it is a failed probe
\* (the next probe follows, or the abort after the third); read as the
\* acknowledgment of a Zensys firmware line it sets the warning flag and the
\* upgrade goes on.
C3_ErrorFatalInWaitResp ==
    [][IsErrorReport(lastRead') =>
        /\ pc = "wait_resp" => pc' = "dead"
        /\ pc = "sync_read" =>
              /\ i' = i + 1
              /\ pc' = IF i < 2 THEN "sync_write" ELSE "dead"
        /\ pc = "zensys_ack" => pc' = "zensys_followup" /\ ret' = 1]_vars

\* a command's wait ended in die() on the line "<E005"
C3_Witness ==
    /\ pc = "dead"
    /\ expected # 0
    /\ IsErrorReport(lastRead)


(***************************************************************************)
(* Properties of the ST upgrade.                                           *)
(***************************************************************************)
\* bootloader framing, 57600 baud 8E1, and normal framing, 9600 baud 8N1
Framing8E1 == [baud |-> 57600, parenb |-> TRUE]
Framing8N1 == [baud |-> 9600, parenb |-> FALSE]

\* a write of the bytes b and a read of n reply bytes, in bootloader framing
W(b) == [op |-> "write", f |-> Framing8E1, b |-> b, n |-> Len(b)]
R(n) == [op |-> "read", f |-> Framing8E1, b |-> <<>>, n |-> n]

IsPrefix(a, b) == Len(a) <= Len(b) /\ a = SubSeq(b, 1, Len(a))

IsSyncByte(e) == e.op = "write" /\ e.b = <<127>>

\* the place in the trace of the latest sync byte, 0 if none
SyncPos ==
    IF \E k \in 1..Len(trace) : IsSyncByte(trace[k])
    THEN CHOOSE k \in 1..Len(trace) :
            IsSyncByte(trace[k]) /\ \A m \in (k + 1)..Len(trace) : ~IsSyncByte(trace[m])
    ELSE 0

\* what was done after the latest sync attempt, the software recovery apart
Post ==
    IF SyncPos < Len(trace) /\ trace[SyncPos + 1].op = "termios"
    THEN <<>>
    ELSE SubSeq(trace, SyncPos + 1, Len(trace))

NotEol(c) == c # 10 /\ c # 13
\* a line of the file without its terminator
Chomp(raw) == SelectSeq(raw, NotEol)

\* the record-type field TT of a line is "00"
TypeIs00(l) == l[8] = 48 /\ l[9] = 48

BankSelect == <<62>> \o [k \in 1..63 |-> k] \o <<62>>

EraseEvents ==
    << W(<<1, 254>>), R(5), W(<<2, 253>>), R(5), W(<<67, 188>>), R(1),
       W(BankSelect), R(1) >>

\* the frames of one line: none for a record of another type than 00;
\* write-memory, set-address and, for a line of 13..43 characters (for
\* every line when always is TRUE), payload
RecordEvents(l, always) ==
    IF ~TypeIs00(l) THEN <<>>
    ELSE << W(<<49, 206>>), R(1), W(AddressFrame(l)), R(1) >>
           \o (IF always \/ (Len(l) >= 13 /\ Len(l) <= 43)
               THEN << W(PayloadFrame(l)), R(1) >> ELSE <<>>)

RECURSIVE ProgEvents(_, _, _)
ProgEvents(f, n, always) ==
    IF n = 0 THEN <<>>
    ELSE ProgEvents(f, n - 1, always) \o RecordEvents(Chomp(f[n]), always)

FinalEvents == << W(<<33, 222>>), R(1), W(<<8, 0, 0, 0, 8>>) >>

ExpectedPost(always) ==
    EraseEvents \o ProgEvents(file, Len(file), always) \o FinalEvents

StReturned == pc \in {"upgrade_return", "exit", "done"}

StOrder(always) ==
    StRun =>
        /\ \A k \in 1..SyncPos :
              trace[k].op = "write" =>
                  trace[k].b \in {<<127>>, write_line(<<>>), write_line(RecoveryText)}
        /\ pc = "st_erase" /\ j = 0 => reply = <<121>> /\ SyncPos = Len(trace)
        /\ Post # <<>> \/ StReturned => SyncPos > 0 /\ reply # <<>>
        /\ IsPrefix(Post, ExpectedPost(always))
        /\ StReturned => Post = ExpectedPost(always)

\* C4 (as claimed): in an ST upgrade the erase sequence is sent once and only
\* after a 0x79 reply to a sync byte; then for each data record, in file
\* order, write-memory, set-address and payload, each followed by the read of
\* 1 reply byte; then the go command with 1 reply byte and the jump frame;
\* nothing after the jump frame.
C4_ThreeFramesPerRecord == StOrder(TRUE)

\* C4 (amended): as claimed, but a data record whose line is not 13..43
\* characters long gets write-memory and set-address only, no payload.
C4_StOrder == StOrder(FALSE)

\* an ST upgrade returned after two data records were programmed
C4_Witness ==
    /\ StRun
    /\ StReturned
    /\ Len(file) = 3
    /\ TypeIs00(file[2]) /\ TypeIs00(file[3])
    /\ Len(Chomp(file[2])) = 13 /\ Len(Chomp(file[3])) = 43
    /\ Len(Post) = Len(EraseEvents) + 12 + Len(FinalEvents)

EraseDone ==
    pc \in {"st_prog", "st_addr", "st_payload", "st_finalize", "st_jump",
            "upgrade_return", "exit", "done", "crashed"}

\* C5: after sync, upgrade_st sends 01 FE (5 reply bytes read), 02 FD (5),
\* 43 BC (1) and the 65 bytes 3E, 01..3F, 3E (1), in this order, the same
\* bytes for every firmware file and every value of the reply bytes.
C5_EraseSequence ==
    StRun /\ (Post # <<>> \/ EraseDone) =>
        /\ Len(BankSelect) = 65
        /\ IF Len(Post) >= 8
           THEN SubSeq(Post, 1, 8) = EraseEvents
           ELSE IsPrefix(Post, EraseEvents) /\ pc \in {"st_erase", "dead"}
        /\ EraseDone => Len(Post) >= 8

\* the erase sequence was sent while the bootloader answered 0x1F
C5_Witness ==
    /\ StRun
    /\ pc = "st_prog"
    /\ fpos = 0
    /\ reply = <<31>>
    /\ Post = EraseEvents

\* C6 (as claimed): the sync byte is never sent more than 4 times.
C6_AtMostFourSyncBytes == Count(IsSyncByte) <= 4

\* C6 (amended): upgrade_st makes at most 5 sync attempts (i = 0..4), each a
\* flush of the input, the sync byte 0x7F and the wait for one reply byte;
\* when the fifth is not answered by 0x79 either, the run aborts.
C6_SyncBudget ==
    StRun =>
        /\ Count(IsSyncByte) <= 5
        /\ \A k \in 1..Len(trace) :
              IsSyncByte(trace[k]) => k > 1 /\ trace[k - 1] = EvFlush(Framing8E1)
        /\ pc = "st_sync" => Count(IsSyncByte) = i /\ i <= 4
        /\ pc = "st_erase" /\ j = 0 => reply = <<121>>
        /\ pc \in {"st_sync", "st_recover", "dead"} /\ Post = <<>> => reply # <<121>>
        /\ Count(IsSyncByte) = 5 /\ Post = <<>> /\ reply # <<121>> => pc = "dead"

\* five sync bytes were sent, none answered by 0x79
C6_Witness ==
    /\ Count(IsSyncByte) = 5
    /\ reply = <<31>>
    /\ pc = "dead"

IsNormalTermios(e) == e.op = "termios" /\ e.f = Framing8N1

\* the place in the trace where the software recovery starts, 0 if none
RecPos ==
    IF \E k \in 1..Len(trace) : IsNormalTermios(trace[k])
    THEN CHOOSE k \in 1..Len(trace) : IsNormalTermios(trace[k])
    ELSE 0

RecoveryEvents ==
    << [op |-> "termios", f |-> Framing8N1, b |-> <<>>, n |-> 9600],
       [op |-> "write", f |-> Framing8N1, b |-> write_line(<<>>), n |-> 2],
       [op |-> "write", f |-> Framing8N1, b |-> write_line(<<62, 67, 66>>), n |-> 5],
       [op |-> "usleep", f |-> Framing8N1, b |-> <<>>, n |-> 20000],
       [op |-> "flush", f |-> Framing8N1, b |-> <<>>, n |-> 0],
       [op |-> "termios", f |-> Framing8E1, b |-> <<>>, n |-> 57600],
       [op |-> "usleep", f |-> Framing8E1, b |-> <<>>, n |-> 20000] >>

\* C7: the software recovery of upgrade_st happens at most once, directly
\* after the failure of the sync attempt with index 2 (the third); it is, in
\* order: normal framing, a blank line, ">CB", a settle delay, a flush of the
\* input, bootloader framing, a settle delay; the sync loop then goes on
\* with the attempt of index 3.
C7_Recovery ==
    StRun =>
        /\ Count(IsNormalTermios) <= 1
        /\ pc = "st_recover" =>
              i = 2 /\ Count(IsSyncByte) = 3 /\ RecPos = 0 /\ reply # <<121>>
        /\ pc = "st_sync" /\ i >= 3 => RecPos > 0
        /\ RecPos > 0 =>
              /\ Cardinality({k \in 1..RecPos : IsSyncByte(trace[k])}) = 3
              /\ IsSyncByte(trace[RecPos - 1])
              /\ IsPrefix(SubSeq(trace, RecPos, Len(trace)), RecoveryEvents)
                   \/ IsPrefix(RecoveryEvents, SubSeq(trace, RecPos, Len(trace)))
              /\ pc # "dead" => Len(trace) >= RecPos + 6
              /\ Len(trace) > RecPos + 6 =>
                    /\ trace[RecPos + 7] = EvFlush(Framing8E1)
                    /\ IsSyncByte(trace[RecPos + 8])
                    /\ i >= 3

\* the recovery was done and the sync loop is at its attempt of index 3
C7_Witness ==
    /\ pc = "st_sync"
    /\ i = 3
    /\ RecPos > 0
    /\ Len(trace) = RecPos + 6

IsTextLine(b) == b \in {write_line(<<>>), write_line(<<62, 67, 66>>)}

\* the settings the trace's latest termios event made, normal if none
LastTermios ==
    IF \E k \in 1..Len(trace) : trace[k].op = "termios"
    THEN trace[CHOOSE k \in 1..Len(trace) :
                  /\ trace[k].op = "termios"
                  /\ \A m \in (k + 1)..Len(trace) : trace[m].op # "termios"].f
    ELSE Framing8N1

HexDigits == <<48, 49, 50, 51, 52, 53, 54, 55, 56, 57, 65, 66, 67, 68, 69, 70>>
\* the value of the hex digit c (0-9, A-F)
HexVal(c) == (CHOOSE k \in 1..16 : HexDigits[k] = c) - 1
\* the byte of the two hex digits at l[k], l[k + 1]
HexByte(l, k) == 16 * HexVal(l[k]) + HexVal(l[k + 1])

\* C9: for a data record with address 0xHHLL the set-address frame sent is
\* the 5 bytes 08 00 HH LL X, X the XOR of the four bytes before it, and 1
\* reply byte is read after it; the address 0x1234 gives 08 00 12 34 2E.
C9_AddressFrame ==
    pc = "st_payload" =>
        LET l  == Chomp(file[fpos])
            hh == HexByte(l, 4)
            ll == HexByte(l, 6)
            n  == Len(trace)
        IN  /\ trace[n - 1] = W(<<8, 0, hh, ll, BitXor(BitXor(8, 0), BitXor(hh, ll))>>)
            /\ trace[n] = R(1)
            /\ SubSeq(l, 4, 7) = <<49, 50, 51, 52>> =>
                   trace[n - 1].b = <<8, 0, 18, 52, 46>>

\* the set-address frame of a record with the address 0xABCD was sent
C9_Witness ==
    /\ pc = "st_payload"
    /\ SubSeq(Chomp(file[fpos]), 4, 7) = <<65, 66, 67, 68>>
    /\ trace[Len(trace) - 1].b = <<8, 0, 171, 205, 110>>

RECURSIVE XorOf(_)
XorOf(s) == IF s = <<>> THEN 0 ELSE BitXor(s[1], XorOf(Tail(s)))

\* C10: for a data record whose line is 13..43 characters long (n data
\* bytes, n = 1..16) the payload frame sent is n + 2 bytes: the count n - 1,
\* the n data bytes in record order, and the XOR of those n + 1 bytes; no
\* frame is built beyond the 18 bytes of binbuf.
C10_PayloadFrame ==
    /\ maxidx < BINBUF_SIZE
    /\ pc = "st_prog" /\ fpos >= 1 =>
        LET l == Chomp(file[fpos])
            n == (Len(l) - 11) \div 2
            body == <<n - 1>> \o [k \in 1..n |-> HexByte(l, 8 + 2 * k)]
            m == Len(trace)
        IN  TypeIs00(l) /\ Len(l) >= 13 /\ Len(l) <= 43 =>
                /\ n \in 1..16
                /\ trace[m - 1] = W(body \o <<XorOf(body)>>)
                /\ Len(trace[m - 1].b) = n + 2
                /\ trace[m] = R(1)
                /\ maxidx = n + 1

\* the payload frame of a record of 16 data bytes was sent
C10_Witness ==
    /\ pc = "st_prog"
    /\ fpos >= 1
    /\ TypeIs00(Chomp(file[fpos]))
    /\ Len(Chomp(file[fpos])) = 43
    /\ Len(trace[Len(trace) - 1].b) = 18
    /\ maxidx = 17


(***************************************************************************)
(* Properties of st_xor (SpecFn).                                          *)
(***************************************************************************)
\* C11: after st_xor(out, len) the XOR of the len + 1 bytes of the frame,
\* the checksum at index len included, is 0, and the first len bytes are
\* those given.
C11_XorChecksum ==
    pc = "returned" /\ result.fn = "st_xor" =>
        /\ Len(result.out) = call.len + 1
        /\ XorOf(result.out) = 0
        /\ \A k \in 1..call.len : result.out[k] = call.out[k]

\* the frame 7F 80 got the checksum FF, in place of the 01 stored there
C11_Witness ==
    /\ pc = "returned"
    /\ call.fn = "st_xor"
    /\ call.len = 2
    /\ call.out = <<127, 128, 1>>
    /\ result.out = <<127, 128, 255>>


(***************************************************************************)
(* Properties of the ST programming loop.                                  *)
(***************************************************************************)
\* the file line a record is read from is malformed: a data record of
\* fewer than 13 or more than 43 characters
MalformedRecord(raw) ==
    LET l == Chomp(raw) IN TypeIs00(l) /\ (Len(l) < 13 \/ Len(l) > 43)

\* C12: a data record whose line is not 13..43 characters long is a
\* non-fatal warning: the process goes on to the record's length test, where
\* no payload frame is sent for it, the result becomes 1 and the loop
\* continues with the next line.
C12_MalformedIsWarning ==
    [][StRun =>
        /\ pc = "st_prog" /\ fpos < Len(file) /\ MalformedRecord(file[fpos + 1]) =>
              pc' \in {"st_addr", "dead"}
        /\ pc = "st_payload" /\ MalformedRecord(file[fpos]) =>
              pc' = "st_prog" /\ ret' = 1 /\ trace' = trace]_vars


\* C13: a firmware line whose record-type field is not "00" is skipped
\* silently by upgrade_st: on the step that reads it nothing is written to
\* the device, no reply is read and the warning flag keeps its value.
C13_NonDataSkipped ==
    [][StRun /\ pc = "st_prog" /\ fpos < Len(file)
          /\ file[fpos + 1][1] = 58 /\ ~TypeIs00(Chomp(file[fpos + 1])) =>
              /\ trace' = trace
              /\ reply' = reply
              /\ ret' = ret
              /\ fpos' = fpos + 1
              /\ pc' \in {"st_prog", "crashed"}]_vars

\* an extended-address record, the third line of the file, was skipped after
\* a malformed record had set the warning flag
C13_Witness ==
    /\ StRun
    /\ pc = "st_prog"
    /\ fpos = 3
    /\ ~TypeIs00(Chomp(file[3]))
    /\ ret = 1
    /\ trace[Len(trace)].op = "read"


(***************************************************************************)
(* Properties of the Zensys upgrade.                                       *)
(***************************************************************************)
\* the run is a Zensys upgrade: the first line of the file is a data record
ZenRun ==
    /\ mode = "upgrade"
    /\ file # <<>>
    /\ file[1][1] = 58
    /\ file[1][8] = 48 /\ file[1][9] = 48

IsEntry(e) == e.op = "write" /\ e.b = <<62, 90, 66, 13, 0>>
IsFwWrite(e) == e.op = "write" /\ e.b[1] = 58
IsLineRead(e) == e.op = "readline"

\* the place in the trace of the write of ">ZB", 0 if none
EntryPos ==
    IF \E k \in 1..Len(trace) : IsEntry(trace[k])
    THEN CHOOSE k \in 1..Len(trace) : IsEntry(trace[k])
    ELSE 0

\* the lines the handshake awaits: "<E000", ":7F7F7F7F1F00", "<B000"
Awaited ==
    << <<60, 69, 48, 48, 48>>,
       <<58, 55, 70, 55, 70, 55, 70, 55, 70, 49, 70, 48, 48>>,
       <<60, 66, 48, 48, 48>> >>

\* C14: upgrade_zensys completes the interface sync, sends ">ZB" once, and
\* then reads three lines, which must start with "<E000", ":7F7F7F7F1F00"
\* and "<B000" in this order, the third read with the upgrade timeout; any
\* other line, a timeout or an overflow at one of the three reads ends the
\* run in die(); no firmware line is written before the three were read.
C14_Handshake ==
    /\ [](ZenRun =>
            /\ Count(IsEntry) <= 1
            /\ pc = "zensys_entry" =>
                  lastRead.st = "line" /\ lastRead.s = ExactAck /\ EntryPos = 0
            /\ EntryPos > 0 => IsProbe(trace[EntryPos - 1])
            /\ pc = "zensys_handshake" =>
                  EntryPos > 0 /\ Len(trace) = EntryPos + j /\ j < 3
            /\ \A k \in 1..Len(trace) :
                  IsFwWrite(trace[k]) =>
                      /\ EntryPos > 0
                      /\ k > EntryPos + 3
                      /\ SubSeq(trace, EntryPos + 1, EntryPos + 3) =
                            << EvLine(Normal, 3000000), EvLine(Normal, 3000000),
                               EvLine(Normal, 4000000) >>)
    /\ [][pc = "zensys_handshake" =>
            IF lastRead'.st = "line" /\ IsPrefix(Awaited[j + 1], lastRead'.s)
            THEN /\ j' = j + 1
                 /\ pc' = IF j = 2 THEN "zensys_prog" ELSE "zensys_handshake"
            ELSE pc' = "dead"]_vars

\* the three lines were received and the first firmware line was written
\* after them
C14_Witness ==
    /\ ZenRun
    /\ pc = "zensys_ack"
    /\ fpos = 1
    /\ Len(trace) = EntryPos + 4
    /\ IsFwWrite(trace[EntryPos + 4])


\* the events after the three reads of the handshake
AfterHandshake == SubSeq(trace, EntryPos + 4, Len(trace))

InProgLoop == {"zensys_prog", "zensys_ack", "zensys_followup"}

\* C15: for each firmware line written upgrade_zensys reads two lines, the
\* acknowledgment and the follow-up; an acknowledgment that does not start
\* with "<E000" sets the warning flag and the loop goes on; a follow-up
\* starting with "<B" continues with the next firmware line; a follow-up
\* starting with ':' ends the loop, and no firmware line is written after it.
C15_ProgLoop ==
    /\ [](ZenRun /\ EntryPos > 0 /\ Len(trace) > EntryPos + 3 =>
            LET t == AfterHandshake
            IN  /\ \A k \in 1..Len(t) :
                      IF k % 3 = 1 THEN IsFwWrite(t[k])
                      ELSE t[k] = EvLine(Normal, 4000000)
                /\ Len(t) % 3 = 1 => pc \in {"zensys_ack", "dead"}
                /\ Len(t) % 3 = 2 => pc \in {"zensys_followup", "dead"}
                /\ ~(pc \in InProgLoop \cup {"dead"}) => Len(t) % 3 = 0)
    /\ [][ZenRun =>
            /\ pc = "zensys_ack" /\ lastRead'.st = "line" =>
                  /\ pc' = "zensys_followup"
                  /\ ret' = IF IsPrefix(Awaited[1], lastRead'.s) THEN ret ELSE 1
            /\ pc = "zensys_followup" /\ lastRead'.st = "line" =>
                  /\ IsPrefix(<<60, 66>>, lastRead'.s) => pc' = "zensys_prog" /\ ret' = ret
                  /\ lastRead'.s[1] = 58 => pc' = "zensys_verify" /\ ret' = ret
            /\ pc \in {"zensys_drain", "zensys_verify", "upgrade_return", "exit", "done"} =>
                  /\ trace' = trace
                  /\ ~(pc' \in InProgLoop)]_vars

\* a ':' follow-up ended the loop after the first of two firmware lines,
\* whose acknowledgment had set the warning flag
C15_Witness ==
    /\ ZenRun
    /\ pc = "zensys_verify"
    /\ Len(file) >= 2
    /\ fpos = 1
    /\ ret = 1
    /\ lastRead.s[1] = 58
    /\ Len(AfterHandshake) = 3


\* C16: every line of the file that starts with ':' and is consumed by
\* upgrade_zensys is handed to write_line with only its terminator removed,
\* whether the line ends in CR LF, in LF, or in nothing; the strip of the
\* terminator (in upgrade_zensys and in upgrade_st) never faults.
C16_StripNeverFaults ==
    [][/\ pc' # "crashed"
       /\ ZenRun /\ pc = "zensys_prog" /\ fpos < Len(file) /\ file[fpos + 1][1] = 58 =>
             \/ pc' = "dead" /\ trace' = trace
             \/ /\ pc' = "zensys_ack"
                /\ trace' = trace \o <<EvWrite(Normal, Chomp(file[fpos + 1]) \o <<13, 0>>)>>]_vars


\* C17: upgrade_zensys returns only from its last loop, on a line starting
\* with "<B000"; that loop is entered only when a line starting with ':' has
\* been received from the target, as a follow-up or while draining after the
\* programming loop; every other line read meanwhile is dropped, and a read
\* that fails (timeout, overflow) ends the run in die().
C17_VerifyPhase ==
    [][ZenRun =>
        /\ pc' = "upgrade_return" =>
              /\ pc = "zensys_verify"
              /\ lastRead'.st = "line" /\ IsPrefix(Awaited[3], lastRead'.s)
        /\ pc' = "zensys_verify" /\ pc # "zensys_verify" =>
              /\ pc \in {"zensys_followup", "zensys_drain"}
              /\ lastRead'.st = "line" /\ lastRead'.s[1] = 58
        /\ pc \in {"zensys_drain", "zensys_verify"} =>
              /\ lastRead'.st # "line" => pc' = "dead"
              /\ lastRead'.st = "line" => pc' \in {"zensys_drain", "zensys_verify", "upgrade_return"}
              /\ UNCHANGED <<trace, ret, fpos>>
        /\ pc = "zensys_drain" /\ lastRead'.st = "line" /\ lastRead'.s[1] # 58 =>
              pc' = "zensys_drain"
        /\ pc = "zensys_verify" /\ lastRead'.st = "line"
              /\ ~IsPrefix(Awaited[3], lastRead'.s) => pc' = "zensys_verify"]_vars

\* the whole file was sent, and the upgrade returned after the drain
C17_Witness ==
    /\ ZenRun
    /\ pc = "upgrade_return"
    /\ fpos = Len(file)
    /\ Len(AfterHandshake) = 3 * Len(file)
    /\ lastRead.s = <<60, 66, 48, 48, 48>>


\* the line read on this step is an acknowledgment not starting with "<E000"
BadAck ==
    pc = "zensys_ack" /\ lastRead'.st = "line" /\ ~IsPrefix(Awaited[1], lastRead'.s)

\* the line read on this step is a follow-up starting neither with "<B" nor
\* with ':'
OddFollowup ==
    /\ pc = "zensys_followup" /\ lastRead'.st = "line"
    /\ ~IsPrefix(<<60, 66>>, lastRead'.s)
    /\ lastRead'.s[1] # 58

\* C18 (as claimed): the result of upgrade_zensys becomes 1 only through an
\* acknowledgment that is not the zero-value acknowledgment.
C18_OneIffBadAck == [][ZenRun /\ ret' # ret => BadAck]_vars

\* C18 (amended): the result of upgrade_zensys is 0 when the programming
\* loop starts; it becomes 1 on each acknowledgment not starting with "<E000"
\* and on each follow-up line starting neither with "<B" nor with ':', and
\* on no other step; once 1 it stays 1 until it is returned.
C18_ZensysResult ==
    /\ [](ZenRun =>
            /\ ret \in {0, 1}
            /\ pc \in {"handle_upgrade", "upgrade_zensys", "sync_interface", "sync_write",
                       "sync_read", "zensys_entry", "zensys_handshake"} => ret = 0)
    /\ [][ZenRun =>
            /\ ret' >= ret
            /\ ret' # ret => BadAck \/ OddFollowup
            /\ BadAck /\ pc' # "dead" => ret' = 1
            /\ OddFollowup /\ pc' # "dead" => ret' = 1]_vars

\* the acknowledgment of the first firmware line was "<E000" or not, and its
\* follow-up "<X000" has set the result to 1
C18_Witness ==
    /\ ZenRun
    /\ pc = "zensys_prog"
    /\ fpos = 1
    /\ ret = 1
    /\ lastRead.s = <<60, 88, 48, 48, 48>>


(***************************************************************************)
(* Properties of handle_upgrade.                                           *)
(***************************************************************************)
StPcs ==
    {"upgrade_st", "st_sync", "st_recover", "st_erase", "st_prog", "st_addr",
     "st_payload", "st_finalize", "st_jump"}

ZenPcs ==
    {"upgrade_zensys", "sync_interface", "sync_write", "sync_read", "zensys_entry",
     "zensys_handshake", "zensys_prog", "zensys_ack", "zensys_followup",
     "zensys_drain", "zensys_verify"}

\* the file has no first line, or one that does not start with ':'
BadImage == file = <<>> \/ file[1][1] # 58

\* C19: handle_upgrade chooses the protocol from the type field of the
\* file's first line alone, "00" for Zensys and anything else for ST; the
\* file is read again from its first line by the protocol chosen; an empty
\* file or a first line not starting with ':' ends the run before anything
\* is written to or read from the device; the result is 0 or 1.
C19_Dispatch ==
    /\ [](mode = "upgrade" =>
            /\ pc \in StPcs => StRun
            /\ pc \in ZenPcs => ZenRun
            /\ BadImage => trace = <<>> /\ pc \in {"main", "handle_upgrade", "dead"}
            /\ pc \in {"upgrade_st", "upgrade_zensys"} => fpos = 0
            /\ ZenRun /\ Len(trace) >= EntryPos + 4 /\ EntryPos > 0 =>
                  trace[EntryPos + 4] = EvWrite(Normal, Chomp(file[1]) \o <<13, 0>>)
            /\ pc \in {"upgrade_return", "exit", "done"} => ret \in {0, 1})
    /\ [][pc = "handle_upgrade" =>
            /\ BadImage => pc' = "dead"
            /\ ~BadImage /\ TypeIs00(file[1]) => pc' = "upgrade_zensys"
            /\ ~BadImage /\ ~TypeIs00(file[1]) => pc' = "upgrade_st"]_vars
    /\ [][StRun /\ pc = "st_prog" /\ fpos = 0 =>
            fpos' = 1 /\ pc' \in {"st_prog", "crashed"} /\ trace' = trace]_vars

\* the ST protocol was chosen and has read the file's first line again,
\* after the erase sequence
C19_Witness ==
    /\ StRun
    /\ pc = "st_prog"
    /\ fpos = 1
    /\ Post = EraseEvents
    /\ Len(file) >= 2


(***************************************************************************)
(* Properties of the lock file.                                            *)
(***************************************************************************)
\* the process has ended: return from main, exit(1) in die, or a signal
Ended == {"done", "dead", "crashed"}

\* C20: a process that has taken the lock leaves no lock file behind when
\* it ends, by whatever path; a process that did not get the lock leaves
\* the holder's lock file in place.
C20_LockReleased ==
    [][/\ g_locked_tty' /\ pc' \in Ended => lockfile' = "absent"
       /\ ~g_locked_tty' /\ lockfile = "other" => lockfile' = "other"]_vars

\* the same for the return from main and for die alone: these two paths do
\* remove the lock file
LockReleasedByReturnAndDie ==
    [][/\ g_locked_tty' /\ pc' \in {"done", "dead"} => lockfile' = "absent"
       /\ ~g_locked_tty' /\ lockfile = "other" => lockfile' = "other"]_vars

\* the process has ended on the NULL dereference of the terminator strip
\* with its lock file still in place
LockLeftBehind == pc = "crashed" /\ g_locked_tty /\ lockfile = "self"


\* the live processes lock_tty has returned 0 to, and that still run
Holders == { p \in DOMAIN locker : locker[p].pc = "locked" }

\* C21: of the processes that call lock_tty for one device, at most one at
\* a time has been returned success and still runs, whatever the order of
\* their steps, a stale lock file found by both included.
C21_MutualExclusion == Cardinality(Holders) <= 1

\* two processes found the same stale lock file, both took it over, and
\* both were returned 0
BothTookOverStale ==
    /\ Cardinality(Holders) = 2
    /\ \A p \in Holders : locker[p].pid = DeadPid


(***************************************************************************)
(* Properties of the transfers (write_loop, write_line, st_cmd,            *)
(* st_getbytes, read_line).                                                *)
(***************************************************************************)
\* C22: a transfer that has returned has moved every byte it was asked to
\* move: the whole text and terminator of write_line, the whole command of
\* st_cmd and its inlen reply bytes.
C22_AllBytesTransferred ==
    pc = "returned" =>
        /\ call.fn = "write_line" => result.wire = write_line(call.buf)
        /\ call.fn = "st_cmd" => result.wire = call.out /\ result.len = 0

\* st_cmd has returned although the device was sent only a part of the
\* command
ShortCommand ==
    /\ pc = "returned"
    /\ call.fn = "st_cmd"
    /\ Len(result.wire) < Len(call.out)

\* C23: when write_line has returned, the device was sent the text followed
\* by one CR and nothing else.
C23_TextThenCr ==
    pc = "returned" /\ call.fn = "write_line" => result.wire = call.buf \o <<13>>

\* the bytes the device sent during the read_line, in order
InputBytes == [k \in 1..Len(result.input) |-> result.input[k].c]

NotTerminator(c) == c \notin {10, 13}

\* C24: read_line stores the bytes other than CR and LF in arrival order
\* and skips the CR and LF that come before the first of them; when it
\* returns a length, the length is 1..maxlen-1, a CR or LF came last, the
\* buffer holds that many bytes and the NUL follows them; it returns -ENOSPC
\* exactly when maxlen bytes were stored.
C24_ReadLineResult ==
    call.fn = "read_line" /\ result # NoCall =>
        LET data == SelectSeq(InputBytes, NotTerminator)
            n    == Len(InputBytes)
        IN  /\ result.buf = data
            /\ result.len = Len(data)
            /\ result.len <= call.maxlen
            /\ result.ret = "len" =>
                  /\ pc = "returned"
                  /\ result.len \in 1..(call.maxlen - 1)
                  /\ result.nul = result.len
                  /\ ~NotTerminator(InputBytes[n])
                  /\ \E k \in 0..(n - 1) :
                        /\ \A m \in 1..k : ~NotTerminator(InputBytes[m])
                        /\ SubSeq(InputBytes, k + 1, n - 1) = data
            /\ result.ret = "ENOSPC" <=> result.len = call.maxlen
            /\ pc = "call" =>
                  \A k \in 1..n : ~NotTerminator(InputBytes[k]) => result.len = 0 \/ k <= n - result.len

\* read_line returned 2 for "AB" after a leading LF
C24_Witness ==
    /\ pc = "returned"
    /\ call.fn = "read_line"
    /\ result.ret = "len"
    /\ result.len = 2
    /\ InputBytes = <<10, 65, 66, 13>>

\* C25: a read_line that lasts longer than timeout_us, no CR or LF having
\* arrived within timeout_us of its start, returns -ETIMEDOUT.
C25_TimeoutFromStart ==
    /\ pc = "returned"
    /\ call.fn = "read_line"
    /\ result.now > call.timeout_us
    /\ \A k \in 1..Len(result.input) :
          ~NotTerminator(result.input[k].c) => result.input[k].t > call.timeout_us
    => result.ret = "ETIMEDOUT"

\* read_line returned a line whose terminator came after the timeout
LateLine ==
    /\ pc = "returned"
    /\ call.fn = "read_line"
    /\ result.ret = "len"
    /\ result.now > call.timeout_us
    /\ Len(result.input) = result.len + 1


(***************************************************************************)
(* Properties of the response parser.                                      *)
(***************************************************************************)
\* parse_resp returned 0 for the line: a Response was produced
Accepted == pc = "returned" /\ call.fn = "parse_resp" /\ result.ret = 0

\* the line is '<', an uppercase letter and three decimal digits, whatever
\* follows
HasPrimary(l) ==
    /\ Len(l) >= 5
    /\ l[1] = 60
    /\ l[2] \in 65..90
    /\ \A k \in 3..5 : l[k] \in 48..57

\* what parse_resp does with the line does not depend on what the buffer
\* held beyond the line's NUL
SameForAllStale(l) ==
    \A o \in ParseStale :
        parse_resp(StoreStr(l, o), NoResp) = parse_resp(StoreStr(l, ZeroBuf), NoResp)

\* C26: parse_resp produces a Response only from a line that is '<', one
\* uppercase letter and three decimal digits, with or without a secondary
\* part, and its result never depends on bytes beyond the line's NUL.
C26_Grammar ==
    call.fn = "parse_resp" /\ pc # "call" =>
        /\ Accepted => HasPrimary(call.line)
        /\ SameForAllStale(call.line)

\* the line "<X1" was accepted, with the value 1
ShortLineAccepted ==
    /\ Accepted
    /\ call.line = <<60, 88, 49>>
    /\ result.r.arg0 = 1

\* the line does not start with '<', or its second character is no
\* uppercase letter
NoCode(l) == l[1] # 60 \/ Len(l) < 2 \/ l[2] \notin 65..90

\* C27: a line that does not start with '<', or whose second character is
\* not in A..Z, read by wait_resp ends the run in die(): the line is not
\* discarded, and send_then_recv returns nothing for it.
C27_ParseFailureFatal ==
    [][pc = "wait_resp" /\ lastRead'.st = "line" /\ NoCode(lastRead'.s) =>
          /\ pc' = "dead"
          /\ UNCHANGED <<trace, r, retval>>]_vars

\* a command's wait ended in die() on the line "<x000"
C27_Witness ==
    /\ pc = "dead"
    /\ mode = "cmd"
    /\ expected # 0
    /\ lastRead.st = "line"
    /\ lastRead.s = <<60, 120, 48, 48, 48>>

\* C28: the primary value of every Response parse_resp produces is in
\* 0..255.
C28_ValueRange == Accepted => result.r.arg0 \in 0..255

\* the line "<X999" was accepted, with the value 999
BigValueAccepted ==
    /\ Accepted
    /\ call.line = <<60, 88, 57, 57, 57>>
    /\ result.r.arg0 = 999

\* the line is a temperature report: the text after its 18 characters
IsReport(l) == HasPrimary(l) /\ Len(l) >= 18 /\ SubSeq(l, 6, 18) = TempPrefix1
ReportText(l) == SubSeq(l, 19, Len(l))

\* the value of the k digits at the head of a text
RECURSIVE DecVal(_, _)
DecVal(t, k) == IF k = 0 THEN 0 ELSE 10 * DecVal(t, k - 1) + (t[k] - 48)

\* the format byte of a report's text, of up to three digits
Fmt(t) == DecVal(t, IF Len(t) < 3 THEN Len(t) ELSE 3)
\* the first and the second value of a whole text
First(t) == DecVal(SubSeq(t, 5, 7), 3)
Second(t) == DecVal(SubSeq(t, 9, 11), 3)

\* the text holds the format and count values, three digits each
WholeText(t, count) ==
    /\ Len(t) = 3 + 4 * count
    /\ \A k \in 1..Len(t) : IF k % 4 = 0 THEN t[k] = 44 ELSE t[k] \in 48..57

\* C29: a temperature report with format byte f and count (f & 7) of 1 or 2
\* gives the unit 'F' when bits 3-4 of f are not both 0 and 'C' otherwise,
\* the precision (f >> 5) & 7, and the magnitude first for count 1 and
\* 256 * first + second for count 2.
C29_TempDecoding ==
    call.fn = "parse_resp" /\ pc # "call" /\ IsReport(call.line) =>
        LET t     == ReportText(call.line)
            f     == Fmt(t)
            count == f % 8
        IN  count \in {1, 2} /\ WholeText(t, count) =>
              /\ Accepted
              /\ result.r.type1 = IF (f \div 8) % 4 # 0 THEN 70 ELSE 67
              /\ result.r.arg1_precision = (f \div 32) % 8
              /\ result.r.arg1 = IF count = 1 THEN First(t)
                                 ELSE 256 * First(t) + Second(t)

\* the same for reports whose values are bytes, 0..255: for these the
\* decoding is as C29 says
TempDecodingOfBytes ==
    call.fn = "parse_resp" /\ pc # "call" /\ IsReport(call.line) =>
        LET t     == ReportText(call.line)
            f     == Fmt(t)
            count == f % 8
        IN  count \in {1, 2} /\ WholeText(t, count)
              /\ First(t) <= 255 /\ (count = 2 => Second(t) <= 255) =>
              /\ Accepted
              /\ result.r.type1 = IF (f \div 8) % 4 # 0 THEN 70 ELSE 67
              /\ result.r.arg1_precision = (f \div 32) % 8
              /\ result.r.arg1 = IF count = 1 THEN First(t)
                                 ELSE 256 * First(t) + Second(t)

\* the report "034,001,256" gave 256, not 512
TempBytesOrEd ==
    /\ Accepted
    /\ IsReport(call.line)
    /\ ReportText(call.line) = Dec3(34) \o <<44>> \o Dec3(1) \o <<44>> \o Dec3(256)
    /\ result.r.arg1 = 256

\* C30: a temperature report whose count (f & 7) is not 1 or 2, or whose
\* text is shorter than the format and count values of three digits, ends
\* in die(): no Response is produced, and what the buffer held beyond the
\* line's NUL plays no part.
C30_MalformedTemp ==
    call.fn = "parse_resp" /\ pc # "call" /\ IsReport(call.line) =>
        LET t     == ReportText(call.line)
            f     == Fmt(t)
            count == f % 8
        IN  (\A k \in 1..Len(t) : k <= 3 => t[k] \in 48..57)
              /\ (count \notin {1, 2} \/ Len(t) < 3 + 4 * count) =>
                  /\ pc = "dead"
                  /\ result.die
                  /\ \A o \in ParseStale : parse_resp(StoreStr(call.line, o), NoResp).die

\* the report "001,55", too short for its one value, ended in die()
C30_Witness ==
    /\ pc = "dead"
    /\ call.fn = "parse_resp"
    /\ IsReport(call.line)
    /\ ReportText(call.line) = Dec3(1) \o <<44, 53, 53>>


\* C39: read_line stores only to buf[0..maxlen-1], the NUL included, also
\* when it returns -ENOSPC.
C39_StoresWithinBuffer ==
    call.fn = "read_line" /\ result # NoCall =>
        /\ result.len <= call.maxlen
        /\ result.nul < call.maxlen

\* read_line returned -ENOSPC after it stored the NUL at buf[maxlen]
NulPastBuffer ==
    /\ pc = "returned"
    /\ call.fn = "read_line"
    /\ result.ret = "ENOSPC"
    /\ result.nul = call.maxlen


(***************************************************************************)
(* Properties of the command handlers.                                     *)
(***************************************************************************)
\* the printed text is digits, a point, digits and the unit letter: the
\* integer part, the digits of the fraction, and the fraction
DotPos == CHOOSE k \in 1..Len(result.text) : result.text[k] = 46
IntPart == DecVal(SubSeq(result.text, 1, DotPos - 1), DotPos - 1)
FracDigits == Len(result.text) - 1 - DotPos
FracPart == DecVal(SubSeq(result.text, DotPos + 1, Len(result.text) - 1), FracDigits)

\* C31: the text handle_temp_common prints for magnitude m and precision p
\* is the decimal number m / 10^p followed by the unit letter.
C31_TempDisplay ==
    pc = "returned" /\ call.fn = "handle_temp_common" =>
        /\ result.text[Len(result.text)] = call.type1
        /\ call.arg1 * Pow10(FracDigits)
              = (IntPart * Pow10(FracDigits) + FracPart) * Pow10(call.arg1_precision)

\* magnitude 2105 with precision 2 was printed as "21.5C"
LostZero ==
    /\ pc = "returned"
    /\ call.fn = "handle_temp_common"
    /\ call.arg1 = 2105
    /\ call.arg1_precision = 2
    /\ result.text = <<50, 49, 46, 53, 67>>


\* the line is a response without report: '<', letter, three digits, and
\* nothing more or a secondary letter and three digits
ValidSimple(l) ==
    /\ HasPrimary(l)
    /\ \/ Len(l) = 5
       \/ /\ Len(l) = 9
          /\ l[6] \in 65..90
          /\ \A k \in 7..9 : l[k] \in 48..57

\* the line is a temperature report with its format and all its values
ValidReport(l) ==
    /\ IsReport(l)
    /\ Len(ReportText(l)) >= 3
    /\ Fmt(ReportText(l)) % 8 \in {1, 2}
    /\ WholeText(ReportText(l), Fmt(ReportText(l)) % 8)

\* the Response parse_resp produces from a line
RespOf(l) == parse_resp(StoreStr(l, ZeroBuf), NoResp).r

\* C32 (as claimed): the Response of a valid line, report or not, is the
\* Response of no other valid line, so that the line can be written back
\* from it.
C32_RoundTrip ==
    Accepted /\ (ValidSimple(call.line) \/ ValidReport(call.line)) =>
        \A l \in ParseLines :
            (ValidSimple(l) \/ ValidReport(l)) /\ RespOf(l) = result.r => l = call.line

\* C32 (amended): the Response of a valid line without report holds the
\* line's code letter, its value, its secondary letter (0 when there is
\* none) and its secondary value, and is the Response of no other such
\* line.
C32_SimpleRoundTrip ==
    call.fn = "parse_resp" /\ pc # "call" /\ ValidSimple(call.line) =>
        /\ Accepted
        /\ result.r.type0 = call.line[2]
        /\ result.r.arg0 = DecVal(SubSeq(call.line, 3, 5), 3)
        /\ result.r.type1 = IF Len(call.line) = 5 THEN 0 ELSE call.line[6]
        /\ Len(call.line) = 9 => result.r.arg1 = DecVal(SubSeq(call.line, 7, 9), 3)
        /\ \A l \in ParseLines : ValidSimple(l) /\ RespOf(l) = result.r => l = call.line

\* "<N003L000" was parsed into N, 3, L, 0
C32_Witness ==
    /\ Accepted
    /\ call.line = <<60, 78, 48, 48, 51, 76, 48, 48, 48>>
    /\ result.r.type0 = 78
    /\ result.r.arg0 = 3
    /\ result.r.type1 = 76
    /\ result.r.arg1 = 0


(***************************************************************************)
(* Properties of the frames of the ST programming loop.                    *)
(***************************************************************************)
IsWriteEvent(e) == e.op = "write"

\* what was written to the target after the sync, in order
PostWrites == SelectSeq(Post, IsWriteEvent)

\* a set-address frame: 08 00 hi lo and the checksum
IsAddressFrame(b) == Len(b) = 5 /\ b[1] = 8 /\ b[2] = 0 /\ b[5] = BitXor(8, BitXor(b[3], b[4]))

\* C36: in an ST upgrade every write-memory command 31 CE is followed by a
\* set-address frame, and the command written after that is a payload
\* frame: neither the next write-memory command nor the go command.
C36_NoHalfIssuedWrite ==
    StRun =>
        \A k \in 1..Len(PostWrites) :
            PostWrites[k].b = WriteMemoryCmd =>
                /\ k + 1 <= Len(PostWrites) => IsAddressFrame(PostWrites[k + 1].b)
                /\ k + 2 <= Len(PostWrites) =>
                      PostWrites[k + 2].b \notin {WriteMemoryCmd, GoCmd}

\* the go command was written right after the set-address frame of a data
\* record without data
GoAfterAddress ==
    /\ StRun
    /\ StReturned
    /\ \E k \in 1..Len(PostWrites) :
          /\ PostWrites[k].b = WriteMemoryCmd
          /\ k + 2 <= Len(PostWrites)
          /\ PostWrites[k + 2].b = GoCmd


\* the handler of the command has returned to run_command
HandlerReturned == mode = "cmd" /\ pc = "update_nodes" /\ hret # <<>>

\* C34 (as claimed): the handler of the command (on, off, toggle or level)
\* returns 0 when the device answered X000 and the negated code when it
\* answered a nonzero X code; it never returns a positive value.
C34_ReturnConvention == HandlerReturned => hret = <<-retval>>

\* handle_level has returned the code 3 of "<X003" as +3
PositiveFromLevel == HandlerReturned /\ cmd = "level" /\ hret = <<3>>

IsQuery(e) == e.op = "write" /\ e.b = write_line(CmdText("toggle"))
IsOn(e) == e.op = "write" /\ e.b = write_line(OnText)
IsOff(e) == e.op = "write" /\ e.b = write_line(OffText)

\* the step in which the loop of handle_status_quiet ends and r.arg1 is
\* returned to handle_toggle, which goes on to await an 'X' response
StatusReturns ==
    cmd = "toggle" /\ pc = "handle_toggle" /\ expected = Ord("N") /\ expected' = Ord("X")

\* C35: handle_toggle sends the status query first and once; it sends at
\* most one ON or OFF command in all: exactly one ON when the status it was
\* returned is 0, exactly one OFF when it is greater than 0; when the query
\* was answered with a nonzero X code it sends neither and returns that code
\* negated.
C35_Toggle ==
    /\ [](cmd = "toggle" =>
            /\ Count(IsOn) + Count(IsOff) <= 1
            /\ Count(IsQuery) <= 1
            /\ Count(IsOn) + Count(IsOff) = 1 =>
                   /\ Count(IsQuery) = 1
                   /\ \E k \in 2..Len(trace) :
                          /\ IsQuery(trace[k - 1])
                          /\ IsOn(trace[k]) \/ IsOff(trace[k])
            /\ HandlerReturned /\ Count(IsOn) + Count(IsOff) = 0 =>
                   hret[1] < 0)
    /\ [][cmd = "toggle" /\ pc = "handle_status_quiet" =>
            IF retval # 0
            THEN hret' = <<-retval>> /\ trace' = trace /\ pc' = "update_nodes"
            ELSE hret' = <<>> /\ trace' = trace /\ pc' = "wait_resp"]_vars
    /\ [][StatusReturns /\ pc' # "dead" =>
            /\ r.arg1 = 0 => Count(IsOn)' = 1 /\ Count(IsOff)' = 0
            /\ r.arg1 > 0 => Count(IsOff)' = 1 /\ Count(IsOn)' = 0
            /\ r.arg1 >= 0]_vars
    /\ [][cmd = "toggle" /\ (Count(IsOn)' # Count(IsOn) \/ Count(IsOff)' # Count(IsOff)) =>
            pc = "handle_toggle"]_vars

\* toggle found node 3 at level 255, sent OFF once and returned 0
C35_Witness ==
    /\ HandlerReturned
    /\ cmd = "toggle"
    /\ Count(IsQuery) = 1
    /\ Count(IsOff) = 1
    /\ Count(IsOn) = 0
    /\ hret = <<0>>

\* "<N" n "L" vvv for node 3
IsLevelReport(l) ==
    /\ Len(l) = 9
    /\ SubSeq(l, 1, 6) = Str(<<"<", "N">>) \o Dec3(3) \o Str(<<"L">>)
    /\ \A k \in 7..9 : l[k] \in 48..57

\* C38 (as claimed): the value handle_status_quiet returns for node 3 is the
\* secondary value of the line "<N003Lvvv" it received last; no other line
\* ends its loop.
C38_GenuineLevel ==
    [][StatusReturns =>
          /\ IsLevelReport(lastRead.s)
          /\ r.arg1 = 100 * (lastRead.s[7] - 48) + 10 * (lastRead.s[8] - 48)
                        + (lastRead.s[9] - 48)]_vars

\* the thermostat-mode report of node 3 was taken for its level: handle_toggle
\* has sent OFF on the mode value 1
ModeTakenForLevel ==
    /\ cmd = "toggle"
    /\ Count(IsOff) = 1
    /\ lastRead.s = Str(<<"<", "N">>) \o Dec3(3) \o ModePrefix \o Dec3(1)


\* the program under the scheduling it has: a single process that is never
\* suspended for ever, so a step that can be taken is taken eventually
SpecLive == Spec /\ WF_vars(Next)

\* C33 (as claimed): a wait_resp that has begun ends: it returns to its
\* caller or the run is dead, whatever lines the device sends.
C33_NoUnboundedWait == (pc = "wait_resp") ~> (pc # "wait_resp")

\* wait_resp has discarded a line with a code it does not await and waits on
WaitsOn ==
    /\ pc = "wait_resp"
    /\ lastRead.st = "line"
    /\ r.type0 \notin {0, expected}


(***************************************************************************)
(* sync_interface and the commands after it, with the device's replies     *)
(* kept in the order the device sends them (src/vrctl.c, sync_interface,   *)
(* wait_resp, update_nodes).  A reply is taken by the read_line that       *)
(* follows if it arrives within the timeout; if not, that read_line times  *)
(* out and the reply stays on its way.                                     *)
(***************************************************************************)
\* what the device answers to a line it is sent: "<E000" to a blank line
\* and to ">UP", the three responses to ">ZB", "<X000" to a node command
DeviceReply(text) ==
    IF text = <<>> \/ text = UpdateText THEN <<AckLine>>
    ELSE IF text = EntryText THEN <<AckLine, PreambleLine, ReadyLine>>
    ELSE <<Str(<<"<", "X", "0", "0", "0">>)>>

\* the replies to a line, each with what it answers
Replies(text, what) ==
    [k \in 1..Len(DeviceReply(text)) |-> [s |-> DeviceReply(text)[k], of |-> what]]

\* a line the device sent before the run, already in the input queue
Leftover == [s |-> Str(<<"<", "X", "0", "0", "3">>), of |-> "before"]

InitSync ==
    /\ pc = "dev_sync_interface"
    /\ \/ mode = "cmd" /\ cmd \in {"on", "off"}
       \/ mode = "upgrade" /\ cmd = "none"
    /\ file = <<>>
    /\ fpos = 0
    /\ framing = Normal
    /\ trace = <<>>
    /\ i = 0
    /\ ret = 0
    /\ lastRead = [st |-> "none", s |-> <<>>, of |-> "none"]
    /\ expected = 0
    /\ cont = "none"
    /\ r = NoResp
    /\ retval = -1
    /\ reply = <<>>
    /\ j = 0
    /\ maxidx = 0
    /\ lockfile = "self"
    /\ g_locked_tty = TRUE
    /\ call = NoCall
    /\ result = NoCall
    /\ locker = <<>>
    /\ hret = <<>>
    /\ inflight \in {<<>>, <<Leftover>>}

SyncUnchanged ==
    UNCHANGED <<mode, cmd, file, fpos, framing, ret, reply, maxidx,
                lockfile, g_locked_tty, call, result, locker, hret>>

\* usleep(25000); flush_bytes(devfd): every byte that has arrived is read
\* and dropped
dev_sync_interface ==
    /\ pc = "dev_sync_interface"
    /\ trace' = trace \o <<EvSleep(framing, 25000), EvFlush(framing)>>
    /\ inflight' = <<>>
    /\ i' = 0
    /\ pc' = "dev_sync_write"
    /\ UNCHANGED <<j, lastRead, expected, cont, r, retval>>
    /\ SyncUnchanged

\* write_line(devfd, ""): the device answers the blank line, or does not
\* (it is still starting up)
dev_sync_write ==
    /\ pc = "dev_sync_write"
    /\ i < SYNC_PROBES
    /\ trace' = trace \o <<EvWrite(framing, write_line(<<>>))>>
    /\ \E answers \in BOOLEAN :
        inflight' = IF answers
                    THEN inflight \o Replies(<<>>, "probe")
                    ELSE inflight
    /\ pc' = "dev_sync_read"
    /\ UNCHANGED <<j, i, lastRead, expected, cont, r, retval>>
    /\ SyncUnchanged

\* read_line(devfd, buf, BUFLEN, TIMEOUT); the test of the line; sleep(1);
\* i++; and the die() after the loop
dev_sync_read ==
    /\ pc = "dev_sync_read"
    /\ \/ /\ inflight # <<>>
          /\ lastRead' = [st |-> "line", s |-> Head(inflight).s,
                          of |-> Head(inflight).of]
          /\ inflight' = Tail(inflight)
       \/ /\ lastRead' = [st |-> "timeout", s |-> <<>>, of |-> "none"]
          /\ inflight' = inflight
    /\ IF sync_matches(lastRead')
       THEN /\ pc' = IF mode = "upgrade" THEN "dev_upgrade_zensys" ELSE "dev_send"
            /\ UNCHANGED <<i, trace>>
       ELSE /\ trace' = trace \o <<EvSleep(framing, 1000000)>>
            /\ i' = i + 1
            /\ pc' = IF i + 1 < SYNC_PROBES THEN "dev_sync_write" ELSE "dead"
    /\ UNCHANGED <<j, expected, cont, r, retval>>
    /\ SyncUnchanged

\* write_line of send_then_recv, answered by the device, and the entry of
\* wait_resp
dev_send_then_recv(expected_type, text, next) ==
    /\ trace' = trace \o <<EvWrite(framing, write_line(text))>>
    /\ inflight' = inflight \o Replies(text, "command")
    /\ expected' = expected_type
    /\ cont' = next
    /\ r' = NoResp
    /\ pc' = "dev_wait_resp"
    /\ UNCHANGED <<j, i, lastRead, retval>>
    /\ SyncUnchanged

\* run_command -> handle_on / handle_off
dev_run_command ==
    /\ pc = "dev_send"
    /\ dev_send_then_recv(Ord("X"), CmdText(cmd), "dev_update_nodes")

\* update_nodes
dev_update_nodes ==
    /\ pc = "dev_update_nodes"
    /\ dev_send_then_recv(Ord("E"), UpdateText, "done")

\* one turn of wait_resp's loop on the line that arrives next; read_resp
\* dies when none arrives within the timeout
dev_wait_resp ==
    /\ pc = "dev_wait_resp"
    /\ \/ /\ inflight # <<>>
          /\ lastRead' = [st |-> "line", s |-> Head(inflight).s,
                          of |-> Head(inflight).of]
          /\ inflight' = Tail(inflight)
          /\ LET p == parse_resp(StoreStr(Head(inflight).s, ZeroBuf), r)
             IN  IF p.ret < 0 \/ p.die \/ IsFatalError(p.r)
                 THEN /\ Die
                      /\ UNCHANGED <<r, retval>>
                 ELSE IF p.r.type0 # expected
                 THEN /\ pc' = "dev_wait_resp"
                      /\ r' = p.r
                      /\ UNCHANGED retval
                 ELSE /\ pc' = cont
                      /\ r' = p.r
                      /\ retval' = p.r.arg0
       \/ /\ lastRead' = [st |-> "timeout", s |-> <<>>, of |-> "none"]
          /\ inflight' = inflight
          /\ Die
          /\ UNCHANGED <<r, retval>>
    /\ UNCHANGED <<j, i, trace, expected, cont>>
    /\ SyncUnchanged

\* upgrade_zensys: write_line(devfd, ">ZB") after sync_interface
dev_upgrade_zensys ==
    /\ pc = "dev_upgrade_zensys"
    /\ trace' = trace \o <<EvWrite(framing, write_line(EntryText))>>
    /\ inflight' = inflight \o Replies(EntryText, "command")
    /\ j' = 0
    /\ pc' = "dev_zensys_handshake"
    /\ UNCHANGED <<i, lastRead, expected, cont, r, retval>>
    /\ SyncUnchanged

\* the next of the three read_resp after ">ZB", each with its strncmp and
\* die()
dev_zensys_handshake ==
    /\ pc = "dev_zensys_handshake"
    /\ j < Len(HandshakeLines)
    /\ \/ /\ inflight # <<>>
          /\ lastRead' = [st |-> "line", s |-> Head(inflight).s,
                          of |-> Head(inflight).of]
          /\ inflight' = Tail(inflight)
          /\ IF strncmp_eq(StoreStr(Head(inflight).s, ZeroBuf), 0,
                           HandshakeLines[j + 1].lit, HandshakeLines[j + 1].n)
             THEN /\ j' = j + 1
                  /\ pc' = IF j + 1 = Len(HandshakeLines)
                           THEN "done" ELSE "dev_zensys_handshake"
             ELSE /\ Die
                  /\ j' = j
       \/ /\ lastRead' = [st |-> "timeout", s |-> <<>>, of |-> "none"]
          /\ inflight' = inflight
          /\ Die
          /\ j' = j
    /\ UNCHANGED <<i, trace, expected, cont, r, retval>>
    /\ SyncUnchanged

NextSync ==
    \/ dev_upgrade_zensys
    \/ dev_zensys_handshake
    \/ dev_sync_interface
    \/ dev_sync_write
    \/ dev_sync_read
    \/ dev_run_command
    \/ dev_update_nodes
    \/ dev_wait_resp

SpecSync == InitSync /\ [][NextSync]_vars

\* sync_interface has returned
Synced ==
    pc \in {"dev_send", "dev_wait_resp", "dev_update_nodes", "dev_upgrade_zensys",
            "dev_zensys_handshake", "done"}

\* C37 (as claimed): once sync_interface has returned, no reply to one of
\* its probes is unread or on its way, so that the commands that follow read
\* replies to their own lines only.
C37_NoStaleReply ==
    Synced => \A k \in 1..Len(inflight) : inflight[k].of # "probe"

\* the reply to probe 1 came after its read timed out and was read as the
\* reply to probe 2; the reply to probe 2 was then taken for the "<E000" of
\* ">ZB", and the true "<E000" of ">ZB" was read where the preamble was
\* awaited: the upgrade is dead though the device answered every line
StaleAckTaken ==
    /\ mode = "upgrade"
    /\ pc = "dead"
    /\ j = 1
    /\ lastRead.s = AckLine
    /\ lastRead.of = "command"

=============================================================================
